---------------------------- MODULE Spec2Model ----------------------------
(***************************************************************************)
(* Model of the schedule engine of the IITK course planner: the schedule   *)
(* string parser, the time-slot aggregator, the conflict detector, the     *)
(* point-of-add clash check, the availability filters, the clock           *)
(* formatting, the grid's time range and the course-load analysis with its *)
(* retries, as written in src/src/App.tsx, src/unnamed/part_000,           *)
(* src/unnamed/part_001 and src/src/utils/scheduleParser.ts                *)
(*                                                                         *)
(* A JavaScript string is modelled as a sequence of one-character strings, *)
(* so that split, trim, Number and the template literals are computed      *)
(* character by character.                                                 *)
(***************************************************************************)
EXTENDS Integers, Sequences, FiniteSets, TLC

VARIABLES fn, args, ret,
          loadedCourses, selectedCourses, dayTimeFilters, isAnalyzing, analysisResult,
          analyses, now,
          selectedCourseCode, rendered, lastDialog,
          analysesAtReset

\* the state of the course selector: the code chosen in its dropdown, the
\* values its handlers were rendered with, and the dialog its last handler
\* raised
selectorVars == <<selectedCourseCode, rendered, lastDialog>>

\* the state of the App component (loadedCourses is its `courses`), the
\* analysis invocations under way, the clock their timers read, and the
\* state of the course selector
appVars == <<loadedCourses, selectedCourses, dayTimeFilters, isAnalyzing, analysisResult,
             analyses, now, selectorVars>>

\* history: how many analyses had been started when analysisResult was last
\* cleared by a reset or by closing the modal
historyVars == <<analysesAtReset>>

\* the call observed by the specifications of the pure functions
callVars == <<fn, args, ret>>

vars == <<callVars, appVars, historyVars>>

---------------------------------------------------------------------------
(* Bounds of the model                                                     *)

\* longest schedule string, in segments, handed to the parser
MaxSegments == 2
\* longest course list handed to detectConflicts / checkClash
MaxCourses == 2
\* most day/time windows in a filter list
MaxFilters == 1

\* last minute of the day handed to formatTime
MaxMinute == 1439
\* most courses selected at a time
MaxSelected == 2
\* most invocations of the analysis in a run
MaxAnalyses == 2
\* last second of the clock
MaxTime == 3

---------------------------------------------------------------------------
(* JavaScript strings                                                      *)

\* the value of a missing array element or absent argument
Undefined == <<"undefined">>

\* null, where an object with fields is expected
Null == [null |-> TRUE]

\* the characters String.prototype.trim and /\s+/ treat as white space
IsSpace(c) == c \in {" ", "\t"}

IsDigit(c) == c \in {"0", "1", "2", "3", "4", "5", "6", "7", "8", "9"}

DigitValue(c) ==
    CASE c = "0" -> 0 [] c = "1" -> 1 [] c = "2" -> 2 [] c = "3" -> 3
      [] c = "4" -> 4 [] c = "5" -> 5 [] c = "6" -> 6 [] c = "7" -> 7
      [] c = "8" -> 8 [] c = "9" -> 9

\* the characters of the model in UTF-16 code unit order
CodeUnits ==
    <<"\t", " ", "(", ")", ",", "-",
      "0", "1", "2", "3", "4", "5", "6", "7", "8", "9", ":",
      "A", "B", "C", "D", "E", "F", "G", "H", "I", "J", "K", "L", "M",
      "N", "O", "P", "Q", "R", "S", "T", "U", "V", "W", "X", "Y", "Z",
      "a", "b", "c", "d", "e", "f", "g", "h", "i", "j", "k", "l", "m",
      "n", "o", "p", "q", "r", "s", "t", "u", "v", "w", "x", "y", "z">>

CodeUnit(c) == CHOOSE i \in 1..Len(CodeUnits) : CodeUnits[i] = c

\* s < t in the order of the < operator on strings (code unit order)
RECURSIVE StringLess(_, _)
StringLess(s, t) ==
    IF t = <<>> THEN FALSE
    ELSE IF s = <<>> THEN TRUE
    ELSE IF Head(s) = Head(t) THEN StringLess(Tail(s), Tail(t))
    ELSE CodeUnit(Head(s)) < CodeUnit(Head(t))

\* String.prototype.trim
RECURSIVE TrimStart(_)
TrimStart(s) ==
    IF s # <<>> /\ IsSpace(Head(s)) THEN TrimStart(Tail(s)) ELSE s

RECURSIVE TrimEnd(_)
TrimEnd(s) ==
    IF s # <<>> /\ IsSpace(s[Len(s)]) THEN TrimEnd(SubSeq(s, 1, Len(s) - 1))
    ELSE s

Trim(s) == TrimEnd(TrimStart(s))

\* s.toUpperCase(), for the letters the model compares after upper-casing
ToUpperCase(s) ==
    [i \in 1..Len(s) |->
        CASE s[i] = "n" -> "N" [] s[i] = "i" -> "I" [] s[i] = "l" -> "L"
          [] s[i] = "a" -> "A" [] OTHER -> s[i]]

\* the positions of s at which the separator sep begins
SepAt(s, sep) ==
    {i \in 1..(Len(s) - Len(sep) + 1) : SubSeq(s, i, i + Len(sep) - 1) = sep}

\* s.split(sep) for a non-empty separator string: always at least one piece
RECURSIVE Split(_, _)
Split(s, sep) ==
    IF SepAt(s, sep) = {} THEN <<s>>
    ELSE LET i == CHOOSE k \in SepAt(s, sep) : \A j \in SepAt(s, sep) : k <= j
         IN  <<SubSeq(s, 1, i - 1)>> \o Split(SubSeq(s, i + Len(sep), Len(s)), sep)

\* s.split(/\s+/): a maximal run of white space is one separator
RECURSIVE SplitWhitespace(_)
SplitWhitespace(s) ==
    LET ws == {i \in 1..Len(s) : IsSpace(s[i])}
    IN  IF ws = {} THEN <<s>>
        ELSE LET i == CHOOSE k \in ws : \A j \in ws : k <= j
             IN  <<SubSeq(s, 1, i - 1)>>
                 \o SplitWhitespace(TrimStart(SubSeq(s, i + 1, Len(s))))

\* array.filter(s => s) on an array of strings: the non-empty ones
NonEmpty(seq) == SelectSeq(seq, LAMBDA p : p # <<>>)

\* Number(s) is NaN: modelled for strings of digits, letters and
\* punctuation without sign, dot, exponent or radix prefix; the empty
\* (or all-blank) string converts to 0, undefined to NaN
IsNaN(s) ==
    \/ s = Undefined
    \/ \E i \in 1..Len(Trim(s)) : ~IsDigit(Trim(s)[i])

RECURSIVE DecimalValue(_)
DecimalValue(s) ==
    IF s = <<>> THEN 0
    ELSE 10 * DecimalValue(SubSeq(s, 1, Len(s) - 1)) + DigitValue(s[Len(s)])

\* Number(s) when it is not NaN
Number(s) == DecimalValue(Trim(s))

\* the element of a destructured array, undefined past its end
ElementAt(arr, i) == IF i <= Len(arr) THEN arr[i] ELSE Undefined

\* the decimal digits, '0' first
Digits == <<"0", "1", "2", "3", "4", "5", "6", "7", "8", "9">>

\* n.toString() for an integer n >= 0
RECURSIVE NumberToString(_)
NumberToString(n) ==
    IF n < 10 THEN <<Digits[n + 1]>>
    ELSE NumberToString(n \div 10) \o <<Digits[(n % 10) + 1]>>

\* s.padStart(targetLength, pad) for a one-character pad
RECURSIVE PadStart(_, _, _)
PadStart(s, targetLength, pad) ==
    IF Len(s) >= targetLength THEN s
    ELSE PadStart(<<pad>> \o s, targetLength, pad)

\* `const x = v; return F(x)`: v is evaluated once and F reads its value
Bind(v, F(_)) == CHOOSE r \in {F(x) : x \in {v}} : TRUE

\* `for (const x of seq) acc = Body(acc, x)`: the accumulator after the loop
RECURSIVE ForOf(_, _, _)
ForOf(Body(_, _), acc, seq) ==
    IF seq = <<>> THEN acc
    ELSE CHOOSE r \in {ForOf(Body, a, t) : a \in {Body(acc, Head(seq))},
                                            t \in {Tail(seq)}} : TRUE

---------------------------------------------------------------------------
(* Outcome of a call: a returned value or a thrown TypeError               *)

Normal(v) == [threw |-> FALSE, value |-> v]

Thrown == [threw |-> TRUE]

---------------------------------------------------------------------------
(* Schedule utilities of App.tsx                                           *)

DAY_MAP ==
    (<<"M">> :> <<"M", "o", "n">>) @@ (<<"T">> :> <<"T", "u", "e">>)
    @@ (<<"W">> :> <<"W", "e", "d">>) @@ (<<"T", "h">> :> <<"T", "h", "u">>)
    @@ (<<"F">> :> <<"F", "r", "i">>) @@ (<<"S">> :> <<"S", "a", "t">>)

\* time.split(':').map(Number), NaN in either of the first two => 0
timeToMinutes(time) ==
    LET parts == Split(time, <<":">>)
        hours == ElementAt(parts, 1)
        minutes == ElementAt(parts, 2)
    IN  IF IsNaN(hours) \/ IsNaN(minutes) THEN 0
        ELSE Number(hours) * 60 + Number(minutes)

\* time.split throws a TypeError when time is undefined
timeToMinutesThrows(time) == time = Undefined

parseTimeRange(timeRange) ==
    LET pieces == Split(timeRange, <<"-">>)
        trimmed == [i \in 1..Len(pieces) |-> Trim(pieces[i])]
    IN  [start |-> ElementAt(trimmed, 1), end |-> ElementAt(trimmed, 2)]

\* parseDaysFrom without the look-ahead for 'Th'
RECURSIVE parseDaysFromSingle(_, _, _)
parseDaysFromSingle(dayString, i, days) ==
    IF i > Len(dayString) THEN days
    ELSE IF <<dayString[i]>> \in DOMAIN DAY_MAP
         THEN parseDaysFromSingle(dayString, i + 1, Append(days, <<dayString[i]>>))
    ELSE parseDaysFromSingle(dayString, i + 1, days)

RECURSIVE parseDaysFrom(_, _, _)
parseDaysFrom(dayString, i, days) ==
    IF i > Len(dayString) THEN days
    ELSE IF dayString[i] = "T" /\ i + 1 <= Len(dayString) /\ dayString[i + 1] = "h"
         THEN parseDaysFrom(dayString, i + 2, Append(days, <<"T", "h">>))
    ELSE IF <<dayString[i]>> \in DOMAIN DAY_MAP
         THEN parseDaysFrom(dayString, i + 1, Append(days, <<dayString[i]>>))
    ELSE parseDaysFrom(dayString, i + 1, days)

parseDays(dayString) == parseDaysFrom(dayString, 1, <<>>)

\* the slots one segment pushes, one per day code, in order
segmentSlots(days, start, end, startMinutes, endMinutes) ==
    [k \in 1..Len(days) |->
        [day |-> IF days[k] \in DOMAIN DAY_MAP THEN DAY_MAP[days[k]] ELSE days[k],
         start |-> start,
         end |-> end,
         startMinutes |-> startMinutes,
         endMinutes |-> endMinutes,
         duration |-> endMinutes - startMinutes]]

\* the body of the for loop of parseSchedule, over the remaining segments;
\* duration is kept in minutes (the code stores minutes / 60)
RECURSIVE parseSegments(_, _)
parseSegments(segments, slots) ==
    IF segments = <<>> THEN Normal(slots)
    ELSE LET parts == NonEmpty(SplitWhitespace(Head(segments)))
         IN  IF Len(parts) < 2 THEN parseSegments(Tail(segments), slots)
             ELSE LET days == parseDays(parts[1])
                      range == parseTimeRange(parts[2])
                  IN  IF timeToMinutesThrows(range.start)
                         \/ timeToMinutesThrows(range.end)
                      THEN Thrown
                      ELSE LET startMinutes == timeToMinutes(range.start)
                               endMinutes == timeToMinutes(range.end)
                           IN  IF endMinutes - startMinutes <= 0
                               THEN parseSegments(Tail(segments), slots)
                               ELSE parseSegments(Tail(segments),
                                        slots \o segmentSlots(days, range.start,
                                            range.end, startMinutes, endMinutes))

parseSchedule(scheduleString) ==
    IF scheduleString = <<>> \/ scheduleString = <<"n", "a", "n">>
       \/ Trim(scheduleString) = <<>>
    THEN Normal(<<>>)
    ELSE LET pieces == Split(scheduleString, <<",">>)
             segments == NonEmpty([i \in 1..Len(pieces) |-> Trim(pieces[i])])
         IN  parseSegments(segments, <<>>)

\* slots.map(slot => ({ ...slot, type }))
withType(slots, type) ==
    [k \in 1..Len(slots) |->
        [day |-> slots[k].day, start |-> slots[k].start, end |-> slots[k].end,
         startMinutes |-> slots[k].startMinutes,
         endMinutes |-> slots[k].endMinutes,
         duration |-> slots[k].duration, type |-> type]]

\* one `if (schedule) allSlots.push(...)` step of getAllTimeSlots
pushSchedule(acc, schedule, type) ==
    IF acc.threw \/ schedule = <<>> THEN acc
    ELSE LET parsed == parseSchedule(schedule)
         IN  IF parsed.threw THEN Thrown
             ELSE Normal(acc.value \o withType(parsed.value, type))

getAllTimeSlots(course) ==
    pushSchedule(
        pushSchedule(
            pushSchedule(Normal(<<>>), course.lecture_schedule, "lecture"),
            course.tutorial_schedule, "tutorial"),
        course.practical_schedule, "practical")

---------------------------------------------------------------------------
(* Inputs                                                                  *)

\* sequences over S of length at most n
SeqUpTo(S, n) == UNION {[1..k -> S] : k \in 0..n}

\* array.join(sep)
RECURSIVE Join(_, _)
Join(pieces, sep) ==
    IF pieces = <<>> THEN <<>>
    ELSE IF Len(pieces) = 1 THEN pieces[1]
    ELSE pieces[1] \o sep \o Join(Tail(pieces), sep)

\* segments as the catalog writes them, well-formed and malformed
Segments ==
    {<<"M", " ", "1", "0", ":", "0", "0", "-", "1", "1", ":", "0", "0">>,
     <<"M", " ", "1", "1", ":", "0", "0", "-", "1", "2", ":", "0", "0">>,
     <<"M", "o", "n", " ", "0", "9", ":", "0", "0", "-", "1", "0", ":", "3", "0">>,
     <<"T", "u", "T", "h", " ", "0", "9", ":", "0", "0", "-", "1", "0", ":", "0", "0">>,
     <<"M", "W", "F", " ", "0", "8", ":", "0", "0", "-", "0", "9", ":", "0", "0">>,
     <<"M", "o", "n", " ", "1", "0", ":", "0", "0", "-", "0", "9", ":", "0", "0">>,
     <<"M", "o", "n", " ", "1", "0", ":", "0", "0", "-", "1", "0", ":", "0", "0">>,
     <<"M", " ", "a", "b", "c", "-", "1", "0", ":", "0", "0">>,
     <<"X", " ", "1", "0", ":", "0", "0", "-", "1", "1", ":", "0", "0">>,
     <<"M", " ", "1", "0", "0", "0">>,
     <<"M", "1", "0", ":", "0", "0", "-", "1", "1", ":", "0", "0">>,
     <<"T", " ", "9", ":", "3", "0", "-", "1", "0", ":", "3", "0">>,
     <<"M", "o", "n", ":", "1", "0", ":", "0", "0", "-", "1", "1", ":", "0", "0">>}

\* strings that stand for "no meetings"
BlankSchedules == {<<>>, <<" ">>, <<"n", "a", "n">>}

\* the schedule strings handed to the parser
ScheduleStrings ==
    BlankSchedules
    \cup {Join(segs, <<",", " ">>) : segs \in SeqUpTo(Segments, MaxSegments) \ {<<>>}}

Course(code, lecture, tutorial, practical) ==
    [course_code |-> code, lecture_schedule |-> lecture,
     tutorial_schedule |-> tutorial, practical_schedule |-> practical]

\* courses handed to getAllTimeSlots
SlotCourses ==
    {Course(<<"A">>, l, t, p) :
        l \in BlankSchedules \cup Segments,
        t \in {<<>>, <<"n", "a", "n">>, <<"M", " ", "1", "0", ":", "3", "0", "-", "1", "1", ":", "3", "0">>},
        p \in {<<>>, <<" ">>, <<"F", " ", "1", "4", ":", "0", "0", "-", "1", "3", ":", "0", "0">>, <<"T", "h", "F", " ", "1", "4", ":", "0", "0", "-", "1", "7", ":", "0", "0">>}}

\* courses without meetings
BlankCourses ==
    {Course(<<"P">>, l, t, p) :
        l \in BlankSchedules, t \in BlankSchedules, p \in BlankSchedules}

\* the lectures of the courses a student picks from
Lectures ==
    {<<"M", "o", "n", " ", "0", "9", ":", "0", "0", "-", "1", "0", ":", "3", "0">>,
     <<"M", "o", "n", " ", "1", "0", ":", "0", "0", "-", "1", "1", ":", "0", "0">>,
     <<"M", "o", "n", " ", "1", "1", ":", "0", "0", "-", "1", "2", ":", "0", "0">>,
     <<"T", " ", "1", "0", ":", "0", "0", "-", "1", "1", ":", "0", "0">>}

\* the courses a student picks from: a lecture, or a lecture and a tutorial
PlannerCourses ==
    {Course(code, l, <<>>, <<>>) : code \in {<<"A">>, <<"B">>}, l \in Lectures}
    \cup {Course(code,
                 <<"M", "o", "n", " ", "1", "0", ":", "0", "0", "-", "1", "1", ":", "0", "0">>,
                 <<"M", " ", "1", "0", ":", "3", "0", "-", "1", "1", ":", "3", "0">>,
                 <<>>) : code \in {<<"A">>, <<"B">>}}

\* a project course: no meetings, schedules left blank in the catalog
ProjectCourse == Course(<<"P">>, <<>>, <<"n", "a", "n">>, <<" ">>)

CourseLists == SeqUpTo(PlannerCourses \cup {ProjectCourse}, MaxCourses)

\* a course with a lecture and a tutorial that follows it
LectureThenTutorial ==
    Course(<<"A">>,
           <<"M", "o", "n", " ", "0", "9", ":", "0", "0", "-", "1", "0", ":", "3", "0">>,
           <<"M", " ", "1", "0", ":", "3", "0", "-", "1", "1", ":", "3", "0">>,
           <<>>)

\* a course that meets on Saturday, a day the grid has no column for
SaturdayCourse ==
    Course(<<"S">>, <<"S", " ", "1", "2", ":", "0", "0", "-", "1", "3", ":", "0", "0">>, <<>>, <<>>)

\* the selections the grid is drawn for
GridLists == SeqUpTo(PlannerCourses \cup {ProjectCourse, SaturdayCourse}, MaxCourses)

\* the courses a student tries to add
Candidates ==
    {c \in PlannerCourses : c.course_code = <<"A">>}
    \cup {ProjectCourse, LectureThenTutorial}

\* minutes since midnight at which windows and bare slots begin and end
TimePoints == {540, 600, 660, 720}

Days == {<<"M", "o", "n">>, <<"T", "u", "e">>}

\* slots as hasConflict reads them
BareSlots ==
    [day : Days, startMinutes : TimePoints, endMinutes : TimePoints]

\* the windows of a day/time filter list
Windows == [day : Days, start : TimePoints, end : TimePoints]

FilterLists == SeqUpTo(Windows, MaxFilters)

\* the global time filters of part_001: none, or a window of minutes, its
\* end before, at or after its start
TimeFilters ==
    {Null} \cup [null : {FALSE}, start : {540, 570, 600}, end : {540, 570, 600, 720}]

\* the clock strings of a day -> window map ('' when the field is unset)
ClockStrings == {<<>>, <<"0", "9", ":", "0", "0">>, <<"1", "1", ":", "0", "0">>}

\* day -> window maps: a window for some of the days
DaywiseFilters ==
    UNION {[ds -> [start : ClockStrings, end : ClockStrings]] : ds \in SUBSET Days}

---------------------------------------------------------------------------
(* Availability filters                                                    *)

\* App.tsx: the course passes when some slot overlaps some window of its day
\* the filter with "fits entirely inside a window" in place of "overlaps"
isCourseWithinDayTimeFiltersInside(course, filters) ==
    IF Len(filters) = 0 THEN Normal(TRUE)
    ELSE Bind(getAllTimeSlots(course),
              LAMBDA got :
                  IF got.threw THEN Thrown
                  ELSE IF Len(got.value) = 0 THEN Normal(TRUE)
                  ELSE Normal(\E k \in 1..Len(got.value) : \E f \in 1..Len(filters) :
                                 /\ got.value[k].day = filters[f].day
                                 /\ got.value[k].startMinutes >= filters[f].start
                                 /\ got.value[k].endMinutes <= filters[f].end))

isCourseWithinDayTimeFilters(course, filters) ==
    IF Len(filters) = 0 THEN Normal(TRUE)
    ELSE Bind(getAllTimeSlots(course),
              LAMBDA got :
                  IF got.threw THEN Thrown
                  ELSE IF Len(got.value) = 0 THEN Normal(TRUE)
                  ELSE Normal(\E k \in 1..Len(got.value) : \E f \in 1..Len(filters) :
                                 /\ got.value[k].day = filters[f].day
                                 /\ got.value[k].startMinutes < filters[f].end
                                 /\ got.value[k].endMinutes > filters[f].start))

\* part_001: every slot must lie inside the single global window
isCourseWithinTimeRange(course, timeFilter) ==
    Bind(getAllTimeSlots(course),
         LAMBDA got :
             IF got.threw THEN Thrown
             ELSE IF Len(got.value) = 0 THEN Normal(TRUE)
             ELSE Normal(\A k \in 1..Len(got.value) :
                            ~(\/ got.value[k].startMinutes < timeFilter.start
                              \/ got.value[k].endMinutes > timeFilter.end)))

---------------------------------------------------------------------------
(* Conflict detection of App.tsx                                           *)

\* `${code}-${day}-${start}`
conflictKey(code, day, start) == code \o <<"-">> \o day \o <<"-">> \o start

\* the pair left in the order given
unsortedPair(courseA, courseB) == <<courseA, courseB>>

\* [courseA, courseB].sort(): the default order of strings
sortedPair(courseA, courseB) ==
    IF StringLess(courseB, courseA) THEN <<courseB, courseA>>
    ELSE <<courseA, courseB>>

\* `${sortedPair[0]} clashes with ${sortedPair[1]} on ${day} (${start}-${end})`
conflictPair(courseA, courseB, slot) ==
    sortedPair(courseA, courseB)[1]
    \o <<" ", "c", "l", "a", "s", "h", "e", "s", " ", "w", "i", "t", "h", " ">>
    \o sortedPair(courseA, courseB)[2]
    \o <<" ", "o", "n", " ">> \o slot.day \o <<" ", "(">>
    \o slot.start \o <<"-">> \o slot.end \o <<")">>

\* detectOverlap with closed intervals: touching slots would clash
detectOverlapClosed(slot, existing) ==
    slot.startMinutes <= existing.endMinutes /\ slot.endMinutes >= existing.startMinutes

\* detectOverlap without its second comparison
detectOverlapStartOnly(slot, existing) ==
    slot.startMinutes < existing.endMinutes

\* the overlap test of detectConflicts
detectOverlap(slot, existing) ==
    slot.startMinutes < existing.endMinutes /\ slot.endMinutes > existing.startMinutes

\* slotMap.get(day), or the empty list a missing day is given
daySlotsOf(slotMap, day) ==
    IF day \in DOMAIN slotMap THEN slotMap[day] ELSE <<>>

\* emittedKeys without the key of the entry already in the map
emittedKeysNewOnly(course, slot, existing) ==
    {conflictKey(course.course_code, slot.day, slot.start)}

\* the two conflictKeys.add calls of one overlap
emittedKeys(course, slot, existing) ==
    {conflictKey(course.course_code, slot.day, slot.start),
     conflictKey(existing.course.course_code, existing.slot.day, existing.slot.start)}

\* emittedPairs quoting the range of the entry already in the map
emittedPairsExistingRange(course, slot, existing) ==
    {conflictPair(course.course_code, existing.course.course_code, existing.slot)}

\* emittedPairs with a description for either slot's range
emittedPairsBothRanges(course, slot, existing) ==
    {conflictPair(course.course_code, existing.course.course_code, slot),
     conflictPair(course.course_code, existing.course.course_code, existing.slot)}

\* the conflictPairs.add call of one overlap
emittedPairs(course, slot, existing) ==
    {conflictPair(course.course_code, existing.course.course_code, slot)}

\* the body of the loop over one course's slots: compare the slot with the
\* entries of its day, then append it to the day's list
detectSlot(course, acc, slot) ==
    LET daySlots == daySlotsOf(acc.slotMap, slot.day)
        hits == {i \in 1..Len(daySlots) : detectOverlap(slot, daySlots[i].slot)}
    IN  [threw |-> FALSE,
         slotMap |->
             [d \in DOMAIN acc.slotMap \cup {slot.day} |->
                 IF d = slot.day
                 THEN Append(daySlots, [course |-> course, slot |-> slot])
                 ELSE acc.slotMap[d]],
         conflictKeys |->
             acc.conflictKeys
             \cup UNION {emittedKeys(course, slot, daySlots[i]) : i \in hits},
         conflictPairs |->
             acc.conflictPairs
             \cup UNION {emittedPairs(course, slot, daySlots[i]) : i \in hits}]

\* the body of the loop over the courses; a throw of getAllTimeSlots ends
\* the call
detectCourse(acc, course) ==
    IF acc.threw THEN acc
    ELSE Bind(getAllTimeSlots(course),
              LAMBDA got :
                  IF got.threw THEN Thrown
                  ELSE ForOf(LAMBDA a, slot : detectSlot(course, a, slot),
                             acc, got.value))

detectConflicts(courses) ==
    Bind(ForOf(detectCourse,
               [threw |-> FALSE, slotMap |-> <<>>,
                conflictKeys |-> {}, conflictPairs |-> {}],
               courses),
         LAMBDA acc :
             IF acc.threw THEN Thrown
             ELSE Normal([conflictKeys |-> acc.conflictKeys,
                          conflictPairs |-> acc.conflictPairs]))

---------------------------------------------------------------------------
(* Point-of-add clash check of App.tsx                                     *)

\* clashOverlap without its second comparison
clashOverlapStartOnly(slotA, existing) ==
    slotA.startMinutes < existing.endMinutes

\* the overlap test of checkClash
clashOverlap(slotA, existing) ==
    slotA.startMinutes < existing.endMinutes /\ slotA.endMinutes > existing.startMinutes

\* pushSlot keeping only the first slot of a day
pushSlotFirstOnly(courseB, slotMap, slotB) ==
    [d \in DOMAIN slotMap \cup {slotB.day} |->
        IF d \in DOMAIN slotMap THEN slotMap[d]
        ELSE <<[course |-> courseB, slot |-> slotB]>>]

\* `slotMap.get(key).push({ course: courseB, slot: slotB })`
pushSlot(courseB, slotMap, slotB) ==
    [d \in DOMAIN slotMap \cup {slotB.day} |->
        IF d = slotB.day
        THEN Append(daySlotsOf(slotMap, d), [course |-> courseB, slot |-> slotB])
        ELSE slotMap[d]]

\* step 1 of checkClash: the body of the loop over the existing courses
mapCourse(acc, courseB) ==
    IF acc.threw THEN acc
    ELSE Bind(getAllTimeSlots(courseB),
              LAMBDA got :
                  IF got.threw THEN Thrown
                  ELSE Normal(ForOf(LAMBDA m, slotB : pushSlot(courseB, m, slotB),
                                    acc.value, got.value)))

\* step 2 of checkClash: the body of the loop over the slots of courseA
clashSlot(slotMap, clashes, slotA) ==
    ForOf(LAMBDA found, existing :
              IF clashOverlap(slotA, existing.slot)
              THEN Append(found, existing.course.course_code)
              ELSE found,
          clashes, daySlotsOf(slotMap, slotA.day))

\* the list with its repetitions kept
notUnique(list) == list

\* [...new Set(list)]: the first occurrence of each element, in order
unique(list) ==
    ForOf(LAMBDA seen, x :
              IF \E i \in 1..Len(seen) : seen[i] = x THEN seen ELSE Append(seen, x),
          <<>>, list)

checkClash(courseA, courses) ==
    IF Len(courses) = 0 THEN Normal(<<>>)
    ELSE Bind(getAllTimeSlots(courseA),
              LAMBDA slotsA :
                  IF slotsA.threw THEN Thrown
                  ELSE IF Len(slotsA.value) = 0 THEN Normal(<<>>)
                  ELSE Bind(ForOf(mapCourse, Normal(<<>>), courses),
                            LAMBDA built :
                                IF built.threw THEN Thrown
                                ELSE Normal(unique(
                                         ForOf(LAMBDA clashes, slotA :
                                                   clashSlot(built.value, clashes, slotA),
                                               <<>>, slotsA.value)))))

---------------------------------------------------------------------------
(* utils/scheduleParser.ts: the stand-alone parser and its filter          *)

\* the map callback of parseSchedule, over the remaining items: it throws
\* when an item has no ':' or its time range no '-', and keeps every slot
RECURSIVE parseItems_utils(_, _, _, _)
parseItems_utils(items, type, courseCode, slots) ==
    IF items = <<>> THEN Normal(slots)
    ELSE LET timeRange == ElementAt(Split(Head(items), <<":">>), 2)
             day == ElementAt(Split(Head(items), <<":">>), 1)
             start == ElementAt(Split(timeRange, <<"-">>), 1)
             end == ElementAt(Split(timeRange, <<"-">>), 2)
         IN  IF timeRange = Undefined \/ timeToMinutesThrows(end) THEN Thrown
             ELSE parseItems_utils(Tail(items), type, courseCode,
                      Append(slots,
                          [day |-> Trim(day), start |-> Trim(start), end |-> Trim(end),
                           startMinutes |-> timeToMinutes(start),
                           endMinutes |-> timeToMinutes(end),
                           duration |-> timeToMinutes(end) - timeToMinutes(start),
                           type |-> type, courseCode |-> courseCode]))

parseSchedule_utils(schedule, type, courseCode) ==
    IF schedule = <<>> \/ ToUpperCase(schedule) = <<"N", "I", "L">> THEN Normal(<<>>)
    ELSE parseItems_utils(Split(schedule, <<",", " ">>), type, courseCode, <<>>)

getAllTimeSlots_utils(course) ==
    LET lecture == parseSchedule_utils(course.lecture_schedule, "L", course.course_code)
        tutorial == parseSchedule_utils(course.tutorial_schedule, "T", course.course_code)
        practical == parseSchedule_utils(course.practical_schedule, "P", course.course_code)
    IN  IF lecture.threw \/ tutorial.threw \/ practical.threw THEN Thrown
        ELSE Normal(lecture.value \o tutorial.value \o practical.value)

hasConflict(slot1, slot2) ==
    IF slot1.day # slot2.day THEN FALSE
    ELSE slot1.startMinutes < slot2.endMinutes /\ slot2.startMinutes < slot1.endMinutes

\* filter maps a day to its window {start, end} of clock strings; a day
\* without a window, or with an empty start or end, constrains nothing
isCourseWithinDaywiseTimeRange(course, filter) ==
    Bind(getAllTimeSlots_utils(course),
         LAMBDA got :
             IF got.threw THEN Thrown
             ELSE Normal(\A k \in 1..Len(got.value) :
                     LET slot == got.value[k]
                     IN  (/\ slot.day \in DOMAIN filter
                          /\ filter[slot.day].start # <<>>
                          /\ filter[slot.day].end # <<>>)
                         => ~(\/ timeToMinutes(slot.start)
                                     < timeToMinutes(filter[slot.day].start)
                              \/ timeToMinutes(slot.end)
                                     > timeToMinutes(filter[slot.day].end))))

---------------------------------------------------------------------------
(* Clock formatting: the formatTime of each file                           *)

\* formatTime with the minutes left out: "HH:00"
formatTimeOnTheHour(minutes) ==
    PadStart(NumberToString(minutes \div 60), 2, "0") \o <<":", "0", "0">>

\* App.tsx: `${hours padStart(2,'0')}:${mins padStart(2,'0')}`
formatTime(minutes) ==
    PadStart(NumberToString(minutes \div 60), 2, "0")
    \o <<":">> \o PadStart(NumberToString(minutes % 60), 2, "0")

\* part_001: the minutes are padded to length 0, that is, not padded
formatTime_part001(minutes) ==
    PadStart(NumberToString(minutes \div 60), 2, "0")
    \o <<":">> \o PadStart(NumberToString(minutes % 60), 0, "0")

\* utils/scheduleParser.ts
formatTime_utils(minutes) ==
    PadStart(NumberToString(minutes \div 60), 2, "0")
    \o <<":">> \o PadStart(NumberToString(minutes % 60), 2, "0")

\* part_000 (the timetable grid): 12-hour clock, `${h}:${mm} ${ampm}`
formatTime_grid(minutes) ==
    LET hours == minutes \div 60
        ampm == IF hours >= 12 THEN <<"P", "M">> ELSE <<"A", "M">>
        displayHours == IF hours % 12 = 0 THEN 12 ELSE hours % 12
    IN  NumberToString(displayHours) \o <<":">>
        \o PadStart(NumberToString(minutes % 60), 2, "0") \o <<" ">> \o ampm

---------------------------------------------------------------------------
(* The time range of the grid                                              *)

\* the loop over the courses: the slots whose start and end are scanned
scanCourse(acc, course) ==
    IF acc.threw THEN acc
    ELSE Bind(getAllTimeSlots(course),
              LAMBDA got :
                  IF got.threw THEN Thrown
                  ELSE Normal(acc.value \o got.value))

\* scannedRange over the first scanned slot only
scannedFirstSlot(slots) ==
    IF slots = <<>> THEN [earliest |-> 8 * 60, latest |-> 18 * 60]
    ELSE [earliest |-> slots[1].startMinutes, latest |-> slots[1].endMinutes]

\* Math.min over the scanned starts, Math.max over the scanned ends;
\* earliest is still Infinity exactly when no slot was scanned, and then
\* the default window 8 * 60 .. 18 * 60 is taken
scannedRange(slots) ==
    IF slots = <<>> THEN [earliest |-> 8 * 60, latest |-> 18 * 60]
    ELSE [earliest |-> CHOOSE m \in {slots[k].startMinutes : k \in 1..Len(slots)} :
                           \A k \in 1..Len(slots) : m <= slots[k].startMinutes,
          latest |-> CHOOSE m \in {slots[k].endMinutes : k \in 1..Len(slots)} :
                         \A k \in 1..Len(slots) : m >= slots[k].endMinutes]

\* snapped without the rounding to the hour
notSnapped(range) == range

\* Math.floor(x / 60) * 60 and Math.ceil(x / 60) * 60, for x >= 0
snapped(range) ==
    [earliest |-> (range.earliest \div 60) * 60,
     latest |-> ((range.latest + 59) \div 60) * 60]

\* atLeastAnHour without the widening of a collapsed range
notWidened(range) == range

\* `if (latest <= earliest) latest = earliest + 60`
atLeastAnHour(range) ==
    IF range.latest <= range.earliest
    THEN [earliest |-> range.earliest, latest |-> range.earliest + 60]
    ELSE range

\* App.tsx
getTimeRange(courses) ==
    Bind(ForOf(scanCourse, Normal(<<>>), courses),
         LAMBDA scanned :
             IF scanned.threw THEN Thrown
             ELSE Normal(atLeastAnHour(snapped(scannedRange(scanned.value)))))

\* the days the grid displays
DAYS ==
    <<<<"M", "o", "n">>, <<"T", "u", "e">>, <<"W", "e", "d">>, <<"T", "h", "u">>,
      <<"F", "r", "i">>>>

\* `byDay[typedSlot.day]` is an array: the day is one of DAYS
displayed(day) == \E d \in 1..Len(DAYS) : DAYS[d] = day

\* the test on a slot before it is pushed: it does not fall completely
\* outside the visible range
visible(slot, range) ==
    slot.startMinutes < range.latest /\ slot.endMinutes > range.earliest

\* courses.forEach(course => slots.forEach(slot => ...)): the slots in the
\* order they are visited, each with its course (the type of a slot of
\* getAllTimeSlots is set, so typedSlot is the slot)
RECURSIVE visited(_)
visited(courses) ==
    IF courses = <<>> THEN <<>>
    ELSE LET slots == getAllTimeSlots(Head(courses)).value
         IN  [k \in 1..Len(slots) |-> [course |-> Head(courses), slot |-> slots[k]]]
             \o visited(Tail(courses))

\* TimetableGrid: byDay, an array for each of DAYS
coursesByDay(courses, range) ==
    [day \in {DAYS[d] : d \in 1..Len(DAYS)} |->
        LET pushed(entry) == /\ visible(entry.slot, range)
                             /\ displayed(entry.slot.day)
                             /\ entry.slot.day = day
        IN  SelectSeq(visited(courses), pushed)]

\* TimetableGrid: the range of the grid and the slots grouped under it
timetableGrid(courses) ==
    Bind(getTimeRange(courses),
         LAMBDA range :
             IF range.threw THEN Thrown
             ELSE Normal([earliest |-> range.value.earliest,
                          latest |-> range.value.latest,
                          coursesByDay |-> coursesByDay(courses, range.value)]))

\* part_001: a time filter, when given, is the range as it stands
getTimeRange_part001(courses, timeFilter) ==
    IF timeFilter # Null
    THEN Normal(atLeastAnHour([earliest |-> timeFilter.start,
                               latest |-> timeFilter.end]))
    ELSE Bind(ForOf(scanCourse, Normal(<<>>), courses),
              LAMBDA scanned :
                  IF scanned.threw THEN Thrown
                  ELSE Normal(atLeastAnHour(snapped(scannedRange(scanned.value)))))

---------------------------------------------------------------------------
(* The engine as a state machine: one call per behaviour. fn is the        *)
(* function called ("none" before the call), args its arguments as they    *)
(* are when it returns, ret its outcome                                    *)

Init ==
    /\ fn = "none"
    /\ args = <<>>
    /\ ret = <<>>
    /\ loadedCourses = {}
    /\ selectedCourses = <<>>
    /\ dayTimeFilters = <<>>
    /\ isAnalyzing = FALSE
    /\ analysisResult = Null
    /\ analyses = <<>>
    /\ now = 0
    /\ selectedCourseCode = <<>>
    /\ rendered = [selectedCourses |-> <<>>, dayTimeFilters |-> <<>>,
                   selectedCourseCode |-> <<>>]
    /\ lastDialog = "none"
    /\ analysesAtReset = 0

ParseSchedule ==
    /\ fn = "none"
    /\ \E s \in ScheduleStrings :
        /\ fn' = "parseSchedule"
        /\ args' = [scheduleString |-> s]
        /\ ret' = parseSchedule(s)
    /\ UNCHANGED <<appVars, historyVars>>

GetAllTimeSlots ==
    /\ fn = "none"
    /\ \E c \in SlotCourses \cup BlankCourses :
        /\ fn' = "getAllTimeSlots"
        /\ args' = [course |-> c]
        /\ ret' = getAllTimeSlots(c)
    /\ UNCHANGED <<appVars, historyVars>>

GetAllTimeSlotsUtils ==
    /\ fn = "none"
    /\ \E c \in SlotCourses \cup BlankCourses :
        /\ fn' = "getAllTimeSlots_utils"
        /\ args' = [course |-> c]
        /\ ret' = getAllTimeSlots_utils(c)
    /\ UNCHANGED <<appVars, historyVars>>

DetectConflicts ==
    /\ fn = "none"
    /\ \E cs \in CourseLists :
        /\ fn' = "detectConflicts"
        /\ args' = [courses |-> cs]
        /\ ret' = detectConflicts(cs)
    /\ UNCHANGED <<appVars, historyVars>>

CheckClash ==
    /\ fn = "none"
    /\ \E c \in Candidates, cs \in CourseLists :
        /\ fn' = "checkClash"
        /\ args' = [courseA |-> c, courses |-> cs]
        /\ ret' = checkClash(c, cs)
    /\ UNCHANGED <<appVars, historyVars>>

HasConflict ==
    /\ fn = "none"
    /\ \E s1 \in BareSlots, s2 \in BareSlots :
        /\ fn' = "hasConflict"
        /\ args' = [slot1 |-> s1, slot2 |-> s2]
        /\ ret' = Normal(hasConflict(s1, s2))
    /\ UNCHANGED <<appVars, historyVars>>

IsCourseWithinDayTimeFilters ==
    /\ fn = "none"
    /\ \E c \in PlannerCourses \cup BlankCourses, fs \in FilterLists :
        /\ fn' = "isCourseWithinDayTimeFilters"
        /\ args' = [course |-> c, filters |-> fs]
        /\ ret' = isCourseWithinDayTimeFilters(c, fs)
    /\ UNCHANGED <<appVars, historyVars>>

IsCourseWithinTimeRange ==
    /\ fn = "none"
    /\ \E c \in PlannerCourses \cup BlankCourses,
       w \in [start : TimePoints, end : TimePoints] :
        /\ fn' = "isCourseWithinTimeRange"
        /\ args' = [course |-> c, timeFilter |-> w]
        /\ ret' = isCourseWithinTimeRange(c, w)
    /\ UNCHANGED <<appVars, historyVars>>

IsCourseWithinDaywiseTimeRange ==
    /\ fn = "none"
    /\ \E c \in PlannerCourses \cup BlankCourses, f \in DaywiseFilters :
        /\ fn' = "isCourseWithinDaywiseTimeRange"
        /\ args' = [course |-> c, filter |-> f]
        /\ ret' = isCourseWithinDaywiseTimeRange(c, f)
    /\ UNCHANGED <<appVars, historyVars>>

FormatTime ==
    /\ fn = "none"
    /\ \E m \in 0..MaxMinute :
        /\ fn' = "formatTime"
        /\ args' = [minutes |-> m]
        /\ ret' = Normal(formatTime(m))
    /\ UNCHANGED <<appVars, historyVars>>

FormatTimePart001 ==
    /\ fn = "none"
    /\ \E m \in 0..MaxMinute :
        /\ fn' = "formatTime_part001"
        /\ args' = [minutes |-> m]
        /\ ret' = Normal(formatTime_part001(m))
    /\ UNCHANGED <<appVars, historyVars>>

FormatTimeUtils ==
    /\ fn = "none"
    /\ \E m \in 0..MaxMinute :
        /\ fn' = "formatTime_utils"
        /\ args' = [minutes |-> m]
        /\ ret' = Normal(formatTime_utils(m))
    /\ UNCHANGED <<appVars, historyVars>>

FormatTimeGrid ==
    /\ fn = "none"
    /\ \E m \in 0..MaxMinute :
        /\ fn' = "formatTime_grid"
        /\ args' = [minutes |-> m]
        /\ ret' = Normal(formatTime_grid(m))
    /\ UNCHANGED <<appVars, historyVars>>

GetTimeRange ==
    /\ fn = "none"
    /\ \E cs \in CourseLists :
        /\ fn' = "getTimeRange"
        /\ args' = [courses |-> cs]
        /\ ret' = getTimeRange(cs)
    /\ UNCHANGED <<appVars, historyVars>>

GetTimeRangePart001 ==
    /\ fn = "none"
    /\ \E cs \in CourseLists, tf \in TimeFilters :
        /\ fn' = "getTimeRange_part001"
        /\ args' = [courses |-> cs, timeFilter |-> tf]
        /\ ret' = getTimeRange_part001(cs, tf)
    /\ UNCHANGED <<appVars, historyVars>>

\* a render of TimetableGrid for a selection
TimetableGrid ==
    /\ fn = "none"
    /\ \E cs \in GridLists :
        /\ fn' = "TimetableGrid"
        /\ args' = [courses |-> cs]
        /\ ret' = timetableGrid(cs)
    /\ UNCHANGED <<appVars, historyVars>>

---------------------------------------------------------------------------
(* The App component: its selection, and the course-load analysis          *)
(* (handleAnalyzeCourseLoad and executeFetch). An element of analyses is   *)
(* one invocation: the attempt it is at, where it stands (its request in   *)
(* flight, waiting for its backoff timer, done), the requests it has made, *)
(* when its last request failed and how it ended. Time is in seconds (the  *)
(* code's delays are whole multiples of 1000 ms)                           *)

MAX_RETRIES == 3

\* executeFetch without a delay before the next attempt
noBackoff(attempt) == 0

\* Math.pow(2, attempt) * 1000 milliseconds, in seconds
backoffDelay(attempt) == 2 ^ attempt

\* the loadedCourses of courses.json after de-duplication by course_code: two
\* that overlap on Monday and one on Tuesday
Catalog ==
    {Course(<<"A">>,
            <<"M", "o", "n", " ", "1", "0", ":", "0", "0", "-", "1", "1", ":", "0", "0">>,
            <<>>, <<>>),
     Course(<<"B">>,
            <<"M", "o", "n", " ", "0", "9", ":", "0", "0", "-", "1", "0", ":", "3", "0">>,
            <<>>, <<>>),
     Course(<<"C">>,
            <<"T", " ", "1", "0", ":", "0", "0", "-", "1", "1", ":", "0", "0">>,
            <<>>, <<>>)}

\* the texts setAnalysisResult is given
AnalysisText == [text |-> "analysis"]
EmptyResponseText == [text |-> "empty response"]
ErrorText == [text |-> "error"]

\* a finally block that clears the flag after the last attempt only
afterLastAttemptOnly(attempt, analyzing) ==
    IF attempt = MAX_RETRIES - 1 THEN FALSE ELSE analyzing

\* the finally block of executeFetch(attempt)
afterAttempt(attempt, analyzing) ==
    IF attempt = 0 \/ attempt = MAX_RETRIES - 1 THEN FALSE ELSE analyzing

\* the values a render of the selector closes its handlers over
View ==
    [selectedCourses |-> selectedCourses, dayTimeFilters |-> dayTimeFilters,
     selectedCourseCode |-> selectedCourseCode]

\* courses.json holding a single course
ShortCatalog == {c \in Catalog : c.course_code = <<"A">>}

\* the effect that loads courses.json when the App mounts, for a file that
\* holds a single course
LoadShortCatalog ==
    /\ loadedCourses = {}
    /\ loadedCourses' = ShortCatalog
    /\ UNCHANGED <<selectedCourses, dayTimeFilters, isAnalyzing, analysisResult,
                   analyses, now, selectorVars>>
    /\ UNCHANGED <<callVars, historyVars>>

\* the effect that loads courses.json when the App mounts
LoadCourses ==
    /\ loadedCourses = {}
    /\ loadedCourses' = Catalog
    /\ UNCHANGED <<selectedCourses, dayTimeFilters, isAnalyzing, analysisResult,
                   analyses, now, selectorVars>>
    /\ UNCHANGED <<callVars, historyVars>>

\* the selector re-renders with the state of the App and its own
Render ==
    /\ rendered # View
    /\ rendered' = View
    /\ UNCHANGED <<loadedCourses, selectedCourses, dayTimeFilters, isAnalyzing,
                   analysisResult, analyses, now, selectedCourseCode, lastDialog>>
    /\ UNCHANGED <<callVars, historyVars>>

\* filteredCourses with every branch and course type shown, less the
\* courses already selected: the options of the course dropdown
dropdownOptions(view) ==
    {c.course_code : c \in
        {x \in loadedCourses :
            /\ isCourseWithinDayTimeFilters(x, view.dayTimeFilters) = Normal(TRUE)
            /\ \A i \in 1..Len(view.selectedCourses) :
                   view.selectedCourses[i].course_code # x.course_code}}

\* CourseSelector.handleCourseChange: the user picks an option
HandleCourseChange ==
    /\ \E code \in dropdownOptions(rendered) \cup {<<>>} :
        /\ code # selectedCourseCode
        /\ selectedCourseCode' = code
    /\ lastDialog' = "none"
    /\ UNCHANGED <<loadedCourses, selectedCourses, dayTimeFilters, isAnalyzing,
                   analysisResult, analyses, now, rendered>>
    /\ UNCHANGED <<callVars, historyVars>>

\* App.handleAddCourse: the updater given to setSelectedCourses
handleAddCourse(prev, course) == Append(prev, course)

\* App.handleRemoveCourse: the updater given to setSelectedCourses
handleRemoveCourse(prev, courseCode) ==
    SelectSeq(prev, LAMBDA c : c.course_code # courseCode)

\* the confirmation step of CourseSelector.handleAddCourse: whether the
\* handler goes on to add the course
proceeds(clashes, accepted) == Len(clashes) = 0 \/ accepted

\* a click on ADD (enabled while the rendered selectedCourseCode is set):
\* CourseSelector.handleAddCourse, with the values of its render, and the
\* App.handleAddCourse it calls
HandleAddCourse ==
    /\ rendered.selectedCourseCode # <<>>
    /\ Len(selectedCourses) < MaxSelected
    /\ LET found == {c \in loadedCourses : c.course_code = rendered.selectedCourseCode}
       IN  IF found = {}
           THEN /\ lastDialog' = "none"
                /\ UNCHANGED <<selectedCourses, selectedCourseCode>>
           ELSE LET courseToAdd == CHOOSE c \in found : TRUE
                    alreadyAdded ==
                        \E i \in 1..Len(rendered.selectedCourses) :
                            rendered.selectedCourses[i].course_code
                                = rendered.selectedCourseCode
                    clashes == checkClash(courseToAdd, rendered.selectedCourses)
                IN  IF alreadyAdded
                    THEN /\ lastDialog' = "alert"
                         /\ UNCHANGED <<selectedCourses, selectedCourseCode>>
                    ELSE IF clashes.threw
                    THEN /\ lastDialog' = "none"
                         /\ UNCHANGED <<selectedCourses, selectedCourseCode>>
                    ELSE \E accepted \in BOOLEAN :
                           /\ Len(clashes.value) = 0 => accepted
                           /\ lastDialog' =
                                  IF Len(clashes.value) = 0 THEN "none"
                                  ELSE IF accepted THEN "accepted" ELSE "declined"
                           /\ IF proceeds(clashes.value, accepted)
                              THEN /\ selectedCourses' =
                                          handleAddCourse(selectedCourses, courseToAdd)
                                   /\ selectedCourseCode' = <<>>
                              ELSE UNCHANGED <<selectedCourses, selectedCourseCode>>
    /\ UNCHANGED <<loadedCourses, dayTimeFilters, isAnalyzing, analysisResult, analyses,
                   now, rendered>>
    /\ UNCHANGED <<callVars, historyVars>>

\* a click on the remove button of a listed course:
\* CourseSelector.handleRemoveCourse and the App.handleRemoveCourse it calls
HandleRemoveCourse ==
    /\ \E courseCode \in {rendered.selectedCourses[i].course_code :
                             i \in 1..Len(rendered.selectedCourses)} :
        selectedCourses' = handleRemoveCourse(selectedCourses, courseCode)
    /\ lastDialog' = "none"
    /\ UNCHANGED <<loadedCourses, dayTimeFilters, isAnalyzing, analysisResult, analyses,
                   now, selectedCourseCode, rendered>>
    /\ UNCHANGED <<callVars, historyVars>>

\* a reset that keeps the filters
resetKeepingFilters(filters) ==
    [selectedCourses |-> <<>>, dayTimeFilters |-> filters, analysisResult |-> Null]

\* App.handleReset: the values it sets
handleReset(filters) ==
    [selectedCourses |-> <<>>, dayTimeFilters |-> <<>>, analysisResult |-> Null]

\* a click on Clear All: App.handleReset
HandleReset ==
    /\ selectedCourses' = handleReset(dayTimeFilters).selectedCourses
    /\ dayTimeFilters' = handleReset(dayTimeFilters).dayTimeFilters
    /\ analysisResult' = handleReset(dayTimeFilters).analysisResult
    /\ UNCHANGED <<loadedCourses, isAnalyzing, analyses, now, selectorVars>>
    /\ analysesAtReset' = Len(analyses)
    /\ UNCHANGED callVars

\* a click on RESET: CourseSelector.handleReset, which clears the dropdowns
\* and calls App.handleReset
SelectorHandleReset ==
    /\ selectedCourseCode' = <<>>
    /\ selectedCourses' = handleReset(dayTimeFilters).selectedCourses
    /\ dayTimeFilters' = handleReset(dayTimeFilters).dayTimeFilters
    /\ analysisResult' = handleReset(dayTimeFilters).analysisResult
    /\ lastDialog' = "none"
    /\ UNCHANGED <<loadedCourses, isAnalyzing, analyses, now, rendered>>
    /\ analysesAtReset' = Len(analyses)
    /\ UNCHANGED callVars

\* the start and end times the filter form is submitted with
FormClocks ==
    {<<"1", "0", ":", "0", "0">>, <<"1", "1", ":", "0", "0">>}

\* Date.now() when a filter is added: not before the ids already given
filterIds ==
    LET given == {dayTimeFilters[i].id : i \in 1..Len(dayTimeFilters)}
        latest == IF given = {} THEN 0
                  ELSE CHOOSE x \in given : \A y \in given : y <= x
    IN  {latest, latest + 1} \ {0}

\* a click on Add Filter: CourseSelector.handleAddFilterClick and the
\* App.handleAddFilter it calls
HandleAddFilter ==
    /\ Len(dayTimeFilters) < MaxFilters
    /\ \E day \in Days, newFilterStart \in FormClocks, newFilterEnd \in FormClocks :
        LET startMin == timeToMinutes(newFilterStart)
            endMin == timeToMinutes(newFilterEnd)
        IN  IF startMin >= endMin
            THEN /\ lastDialog' = "alert"
                 /\ UNCHANGED dayTimeFilters
            ELSE /\ lastDialog' = "none"
                 /\ \E id \in filterIds :
                        dayTimeFilters' =
                            Append(dayTimeFilters,
                                   [id |-> id, day |-> day,
                                    start |-> startMin, end |-> endMin])
    /\ UNCHANGED <<loadedCourses, selectedCourses, isAnalyzing, analysisResult, analyses,
                   now, selectedCourseCode, rendered>>
    /\ UNCHANGED <<callVars, historyVars>>

\* a click on the remove button of a listed filter: App.handleRemoveFilter
HandleRemoveFilter ==
    /\ \E id \in {rendered.dayTimeFilters[i].id :
                     i \in 1..Len(rendered.dayTimeFilters)} :
        dayTimeFilters' = SelectSeq(dayTimeFilters, LAMBDA f : f.id # id)
    /\ lastDialog' = "none"
    /\ UNCHANGED <<loadedCourses, selectedCourses, isAnalyzing, analysisResult, analyses,
                   now, selectedCourseCode, rendered>>
    /\ UNCHANGED <<callVars, historyVars>>

\* a click on Clear All Filters: App.handleClearAllFilters
HandleClearAllFilters ==
    /\ dayTimeFilters' = <<>>
    /\ lastDialog' = "none"
    /\ UNCHANGED <<loadedCourses, selectedCourses, isAnalyzing, analysisResult, analyses,
                   now, selectedCourseCode, rendered>>
    /\ UNCHANGED <<callVars, historyVars>>

\* onClose of the analysis modal, shown while analysisResult is set
CloseAnalysisModal ==
    /\ analysisResult # Null
    /\ analysisResult' = Null
    /\ UNCHANGED <<selectedCourses, dayTimeFilters, isAnalyzing, analyses, now>>
    /\ UNCHANGED <<loadedCourses, selectorVars>>
    /\ analysesAtReset' = Len(analyses)
    /\ UNCHANGED callVars

\* the first line of handleAnalyzeCourseLoad: whether it goes on
starts(selected) == Len(selected) # 0

\* handleAnalyzeCourseLoad (the Analyze button is disabled while
\* isAnalyzing) up to the first await of executeFetch(0), whose request is
\* then in flight
HandleAnalyzeCourseLoad ==
    /\ ~isAnalyzing
    /\ Len(analyses) < MaxAnalyses
    /\ IF starts(selectedCourses)
       THEN /\ isAnalyzing' = TRUE
            /\ analysisResult' = Null
            /\ analyses' = Append(analyses,
                                  [attempt |-> 0, pc |-> "fetching", requests |-> 1,
                                   failedAt |-> 0, outcome |-> "none"])
       ELSE UNCHANGED <<isAnalyzing, analysisResult, analyses>>
    /\ UNCHANGED <<selectedCourses, dayTimeFilters, now>>
    /\ UNCHANGED <<loadedCourses, selectorVars>>
    /\ UNCHANGED <<callVars, historyVars>>

\* the request of invocation i resolves with a text: the try block to its
\* end, then the finally block
ResponseWithText ==
    /\ \E i \in 1..Len(analyses) :
        /\ analyses[i].pc = "fetching"
        /\ analysisResult' = AnalysisText
        /\ isAnalyzing' = afterAttempt(analyses[i].attempt, isAnalyzing)
        /\ analyses' = [analyses EXCEPT ![i].pc = "done", ![i].outcome = "text"]
    /\ UNCHANGED <<selectedCourses, dayTimeFilters, now>>
    /\ UNCHANGED <<loadedCourses, selectorVars>>
    /\ UNCHANGED <<callVars, historyVars>>

\* the request of invocation i resolves without a generated text
ResponseEmpty ==
    /\ \E i \in 1..Len(analyses) :
        /\ analyses[i].pc = "fetching"
        /\ analysisResult' = EmptyResponseText
        /\ isAnalyzing' = afterAttempt(analyses[i].attempt, isAnalyzing)
        /\ analyses' = [analyses EXCEPT ![i].pc = "done", ![i].outcome = "empty"]
    /\ UNCHANGED <<selectedCourses, dayTimeFilters, now>>
    /\ UNCHANGED <<loadedCourses, selectorVars>>
    /\ UNCHANGED <<callVars, historyVars>>

\* the request of invocation i rejects, or answers with a status that is
\* not ok: the catch block, which either arms the backoff timer or stores
\* the error text and runs the finally block. A timer is armed only while
\* the clock can still reach the second at which it fires
RequestFails ==
    /\ \E i \in 1..Len(analyses) :
        /\ analyses[i].pc = "fetching"
        /\ IF analyses[i].attempt < MAX_RETRIES - 1
           THEN /\ now + backoffDelay(analyses[i].attempt) <= MaxTime
                /\ analyses' = [analyses EXCEPT ![i].pc = "waiting",
                                                ![i].failedAt = now]
                /\ UNCHANGED <<analysisResult, isAnalyzing>>
           ELSE /\ analysisResult' = ErrorText
                /\ isAnalyzing' = afterAttempt(analyses[i].attempt, isAnalyzing)
                /\ analyses' = [analyses EXCEPT ![i].pc = "done",
                                                ![i].outcome = "error"]
    /\ UNCHANGED <<selectedCourses, dayTimeFilters, now>>
    /\ UNCHANGED <<loadedCourses, selectorVars>>
    /\ UNCHANGED <<callVars, historyVars>>

\* the backoff timer of invocation i fires: executeFetch(attempt + 1) sends
\* its request, then the finally block of the failed attempt runs
BackoffElapses ==
    /\ \E i \in 1..Len(analyses) :
        /\ analyses[i].pc = "waiting"
        /\ now >= analyses[i].failedAt + backoffDelay(analyses[i].attempt)
        /\ analyses' = [analyses EXCEPT ![i].pc = "fetching",
                                        ![i].attempt = analyses[i].attempt + 1,
                                        ![i].requests = analyses[i].requests + 1]
        /\ isAnalyzing' = afterAttempt(analyses[i].attempt, isAnalyzing)
    /\ UNCHANGED <<selectedCourses, dayTimeFilters, analysisResult, now>>
    /\ UNCHANGED <<loadedCourses, selectorVars>>
    /\ UNCHANGED <<callVars, historyVars>>

\* a second passes
Tick ==
    /\ now < MaxTime
    /\ now' = now + 1
    /\ UNCHANGED <<selectedCourses, dayTimeFilters, isAnalyzing, analysisResult,
                   analyses>>
    /\ UNCHANGED <<loadedCourses, selectorVars>>
    /\ UNCHANGED <<callVars, historyVars>>

\* the conflict engine: detectConflicts, checkClash, hasConflict
Next ==
    \/ DetectConflicts
    \/ CheckClash
    \/ HasConflict

Spec == Init /\ [][Next]_vars

\* the parser and the time-slot aggregators
NextParse ==
    \/ ParseSchedule
    \/ GetAllTimeSlots
    \/ GetAllTimeSlotsUtils

SpecParse == Init /\ [][NextParse]_vars

\* the availability filters
NextFilter ==
    \/ IsCourseWithinDayTimeFilters
    \/ IsCourseWithinTimeRange
    \/ IsCourseWithinDaywiseTimeRange

SpecFilter == Init /\ [][NextFilter]_vars

\* clock formatting and the time range of the grid
NextTime ==
    \/ FormatTime
    \/ FormatTimePart001
    \/ FormatTimeUtils
    \/ FormatTimeGrid
    \/ GetTimeRange
    \/ GetTimeRangePart001
    \/ TimetableGrid

SpecTime == Init /\ [][NextTime]_vars

\* the App component and its analysis, over a catalog of one course
NextApp ==
    \/ LoadShortCatalog
    \/ Render
    \/ HandleCourseChange
    \/ HandleAddCourse
    \/ HandleReset
    \/ CloseAnalysisModal
    \/ HandleAnalyzeCourseLoad
    \/ ResponseWithText
    \/ ResponseEmpty
    \/ RequestFails
    \/ BackoffElapses
    \/ Tick

SpecApp == Init /\ [][NextApp]_vars

\* the same, when every request is answered, every timer fires and time
\* passes
SpecAppFair ==
    /\ Init /\ [][NextApp]_vars
    /\ WF_vars(ResponseWithText \/ ResponseEmpty \/ RequestFails)
    /\ WF_vars(BackoffElapses)
    /\ WF_vars(Tick)

\* the course selector and the filters
NextSelect ==
    \/ LoadCourses
    \/ Render
    \/ HandleCourseChange
    \/ HandleAddCourse
    \/ HandleRemoveCourse
    \/ HandleReset
    \/ SelectorHandleReset
    \/ HandleAddFilter
    \/ HandleRemoveFilter
    \/ HandleClearAllFilters

SpecSelect == Init /\ [][NextSelect]_vars

\* every handler of the App component, over a catalog of one course and an
\* advisory service that answers every request with a text
NextHandlers ==
    \/ LoadShortCatalog
    \/ Render
    \/ HandleCourseChange
    \/ HandleAddCourse
    \/ HandleRemoveCourse
    \/ HandleReset
    \/ SelectorHandleReset
    \/ HandleAddFilter
    \/ HandleRemoveFilter
    \/ HandleClearAllFilters
    \/ HandleAnalyzeCourseLoad
    \/ ResponseWithText
    \/ CloseAnalysisModal

SpecHandlers == Init /\ [][NextHandlers]_vars

---------------------------------------------------------------------------
(* Vocabulary of the properties                                            *)

\* the slot list of each course of a list
SlotLists(cs) == [i \in 1..Len(cs) |-> getAllTimeSlots(cs[i]).value]

\* the slot occurrences of a list: <<course index, slot index>>
Occurrences(sl) == UNION {{<<i, k>> : k \in 1..Len(sl[i])} : i \in 1..Len(sl)}

\* o is processed before p
Earlier(o, p) == o[1] < p[1] \/ (o[1] = p[1] /\ o[2] < p[2])

\* two slots of the same day whose half-open intervals intersect
Overlapping(s1, s2) ==
    /\ s1.day = s2.day
    /\ s1.startMinutes < s2.endMinutes
    /\ s2.startMinutes < s1.endMinutes

\* two slots of the same day, one ending at the minute the other starts
Touching(s1, s2) ==
    /\ s1.day = s2.day
    /\ (s1.endMinutes = s2.startMinutes \/ s2.endMinutes = s1.startMinutes)

\* "<code>-<day>-<start>"
KeyText(code, slot) == code \o <<"-">> \o slot.day \o <<"-">> \o slot.start

\* c1 <= c2 in code unit order
StringLeq(c1, c2) == c1 = c2 \/ StringLess(c1, c2)

\* "<c1> clashes with <c2> on <day> (<start>-<end>)"
ClashText(c1, c2, slot) ==
    c1 \o <<" ", "c", "l", "a", "s", "h", "e", "s", " ", "w", "i", "t", "h", " ">>
    \o c2 \o <<" ", "o", "n", " ">> \o slot.day
    \o <<" ", "(">> \o slot.start \o <<"-">> \o slot.end \o <<")">>

\* the description of a clash of the courses coded a and b, quoting slot
Description(a, b, slot) ==
    IF StringLeq(a, b) THEN ClashText(a, b, slot) ELSE ClashText(b, a, slot)

Range(seq) == {seq[i] : i \in 1..Len(seq)}

---------------------------------------------------------------------------
(* Properties of the conflict engine                                       *)

\* C1: slots of one day that only touch (one ends at the minute the other
\* starts) are no conflict: a key or description of a touching pair is in
\* the result of detectConflicts only when a properly overlapping pair put
\* it there, checkClash does not report a course that only touches the
\* candidate, and hasConflict is false for a touching pair.
C1_TouchingIsNoConflict ==
    /\ (fn = "detectConflicts" /\ ~ret.threw) =>
         LET cs == args.courses
             sl == SlotLists(cs)
             occ == Occurrences(sl)
             S(o) == sl[o[1]][o[2]]
             clashing == {pq \in occ \X occ :
                             pq[1] # pq[2] /\ Overlapping(S(pq[1]), S(pq[2]))}
         IN  \A o1 \in occ, o2 \in occ :
                 (o1 # o2 /\ Touching(S(o1), S(o2))) =>
                     /\ KeyText(cs[o1[1]].course_code, S(o1)) \in ret.value.conflictKeys
                          => \E pq \in clashing :
                                 KeyText(cs[pq[1][1]].course_code, S(pq[1]))
                                     = KeyText(cs[o1[1]].course_code, S(o1))
                     /\ Description(cs[o1[1]].course_code, cs[o2[1]].course_code, S(o1))
                            \in ret.value.conflictPairs
                          => \E pq \in clashing :
                                 Description(cs[pq[1][1]].course_code,
                                             cs[pq[2][1]].course_code, S(pq[1]))
                                     = Description(cs[o1[1]].course_code,
                                                   cs[o2[1]].course_code, S(o1))
    /\ (fn = "checkClash" /\ ~ret.threw) =>
         LET cs == args.courses
             sl == SlotLists(cs)
             slotsA == getAllTimeSlots(args.courseA).value
             hit(i) == \E a \in Range(slotsA), b \in Range(sl[i]) : Overlapping(a, b)
             touches(i) == \E a \in Range(slotsA), b \in Range(sl[i]) : Touching(a, b)
         IN  \A i \in 1..Len(cs) :
                 (/\ touches(i)
                  /\ \A j \in 1..Len(cs) :
                         cs[j].course_code = cs[i].course_code => ~hit(j))
                 => cs[i].course_code \notin Range(ret.value)
    /\ (fn = "hasConflict" /\ Touching(args.slot1, args.slot2)) => ret.value = FALSE

\* a list of two one-slot courses whose slots touch, and nothing reported
C1_Witness ==
    /\ fn = "detectConflicts"
    /\ Len(args.courses) = 2
    /\ LET sl == SlotLists(args.courses)
       IN  /\ Len(sl[1]) = 1 /\ Len(sl[2]) = 1
           /\ Touching(sl[1][1], sl[2][1])
    /\ ret.value.conflictKeys = {}
    /\ ret.value.conflictPairs = {}

\* C2: every two distinct slot occurrences of the list that fall on one day
\* and overlap have both their keys in conflictKeys, whichever course comes
\* first.
C2_BothKeysEmitted ==
    (fn = "detectConflicts" /\ ~ret.threw) =>
        LET cs == args.courses
            sl == SlotLists(cs)
            occ == Occurrences(sl)
        IN  \A o1 \in occ, o2 \in occ :
                (o1 # o2 /\ Overlapping(sl[o1[1]][o1[2]], sl[o2[1]][o2[2]])) =>
                    /\ KeyText(cs[o1[1]].course_code, sl[o1[1]][o1[2]])
                           \in ret.value.conflictKeys
                    /\ KeyText(cs[o2[1]].course_code, sl[o2[1]][o2[2]])
                           \in ret.value.conflictKeys

\* course B listed before course A, their slots overlap, both keys present
C2_Witness ==
    /\ fn = "detectConflicts"
    /\ Len(args.courses) = 2
    /\ args.courses[1].course_code = <<"B">>
    /\ args.courses[2].course_code = <<"A">>
    /\ LET sl == SlotLists(args.courses)
       IN  /\ Len(sl[1]) = 1 /\ Len(sl[2]) = 1
           /\ Overlapping(sl[1][1], sl[2][1])
           /\ sl[1][1].start # sl[2][1].start
           /\ Cardinality(ret.value.conflictKeys) = 2

\* C3: when no two slot occurrences of the list overlap on one day (the
\* empty list and courses without slots included), detectConflicts returns
\* an empty key set and an empty description set.
C3_NoOverlapNoConflict ==
    (fn = "detectConflicts" /\ ~ret.threw) =>
        LET sl == SlotLists(args.courses)
            occ == Occurrences(sl)
        IN  (\A o1 \in occ, o2 \in occ :
                 o1 # o2 => ~Overlapping(sl[o1[1]][o1[2]], sl[o2[1]][o2[2]]))
            => /\ ret.value.conflictKeys = {}
               /\ ret.value.conflictPairs = {}

\* two courses with slots on the same day, apart from each other
C3_Witness ==
    /\ fn = "detectConflicts"
    /\ Len(args.courses) = 2
    /\ LET sl == SlotLists(args.courses)
       IN  /\ Len(sl[1]) = 1 /\ Len(sl[2]) = 1
           /\ sl[1][1].day = sl[2][1].day
           /\ sl[1][1].endMinutes < sl[2][1].startMinutes
    /\ ret.value.conflictKeys = {}
    /\ ret.value.conflictPairs = {}

\* the result of detectConflicts for a list of courses with well-formed
\* schedules
Detected(cs) == detectConflicts(cs).value

\* the orderings of a list
Orderings(cs) ==
    {[i \in 1..Len(cs) |-> cs[f[i]]] :
        f \in {g \in [1..Len(cs) -> 1..Len(cs)] :
                  \A i, j \in 1..Len(cs) : g[i] = g[j] => i = j}}

\* the text of a description before its quoted time range:
\* "<c1> clashes with <c2> on <day>"
PairAndDay(description) ==
    LET open == CHOOSE i \in 1..Len(description) :
                    /\ description[i] = "("
                    /\ \A j \in 1..(i - 1) : description[j] # "("
    IN  SubSeq(description, 1, open - 1)

\* C4: every description of detectConflicts reads "<c1> clashes with <c2>
\* on <day> (<start>-<end>)" with c1 <= c2 the codes of two overlapping
\* slots' courses and <start>-<end> the range of the slot processed later;
\* [A: Mon 09:00-10:30, B: Mon 10:00-11:00] gives exactly
\* {"A clashes with B on Mon (10:00-11:00)"}.
C4_DescriptionFormat ==
    (fn = "detectConflicts" /\ ~ret.threw) =>
        LET cs == args.courses
            sl == SlotLists(cs)
            occ == Occurrences(sl)
        IN  /\ \A d \in ret.value.conflictPairs :
                   \E later \in occ, earlier \in occ :
                       /\ Earlier(earlier, later)
                       /\ Overlapping(sl[later[1]][later[2]], sl[earlier[1]][earlier[2]])
                       /\ \E c1, c2 \in {cs[later[1]].course_code,
                                         cs[earlier[1]].course_code} :
                              /\ {c1, c2} = {cs[later[1]].course_code,
                                             cs[earlier[1]].course_code}
                              /\ StringLeq(c1, c2)
                              /\ d = ClashText(c1, c2, sl[later[1]][later[2]])
            /\ cs = <<Course(<<"A">>, <<"M", "o", "n", " ", "0", "9", ":", "0", "0", "-",
                                        "1", "0", ":", "3", "0">>, <<>>, <<>>),
                      Course(<<"B">>, <<"M", "o", "n", " ", "1", "0", ":", "0", "0", "-",
                                        "1", "1", ":", "0", "0">>, <<>>, <<>>)>>
               => ret.value.conflictPairs =
                      {<<"A", " ", "c", "l", "a", "s", "h", "e", "s", " ",
                         "w", "i", "t", "h", " ", "B", " ", "o", "n", " ",
                         "M", "o", "n", " ", "(", "1", "0", ":", "0", "0", "-",
                         "1", "1", ":", "0", "0", ")">>}

\* B listed before A, overlapping slots with different ranges: the one
\* description names A first and quotes the range of A's slot
C4_Witness ==
    /\ fn = "detectConflicts"
    /\ Len(args.courses) = 2
    /\ args.courses[1].course_code = <<"B">>
    /\ args.courses[2].course_code = <<"A">>
    /\ LET sl == SlotLists(args.courses)
       IN  /\ Len(sl[1]) = 1 /\ Len(sl[2]) = 1
           /\ Overlapping(sl[1][1], sl[2][1])
           /\ sl[1][1].start # sl[2][1].start
           /\ ret.value.conflictPairs = {ClashText(<<"A">>, <<"B">>, sl[2][1])}

\* C5: two courses of one slot each whose slots overlap give exactly one
\* description, in the order given and in the opposite order.
C5_OneDescriptionPerPair ==
    (fn = "detectConflicts" /\ ~ret.threw /\ Len(args.courses) = 2) =>
        LET cs == args.courses
            sl == SlotLists(cs)
        IN  (/\ Len(sl[1]) = 1 /\ Len(sl[2]) = 1
             /\ Overlapping(sl[1][1], sl[2][1]))
            => /\ Cardinality(ret.value.conflictPairs) = 1
               /\ Cardinality(Detected(<<cs[2], cs[1]>>).conflictPairs) = 1

\* courses A and B of one slot each, overlapping, one description
C5_Witness ==
    /\ fn = "detectConflicts"
    /\ Len(args.courses) = 2
    /\ args.courses[1].course_code = <<"A">>
    /\ args.courses[2].course_code = <<"B">>
    /\ LET sl == SlotLists(args.courses)
       IN  /\ Len(sl[1]) = 1 /\ Len(sl[2]) = 1
           /\ Overlapping(sl[1][1], sl[2][1])
    /\ Cardinality(ret.value.conflictPairs) = 1

\* C6: every ordering of a course list gives the same conflictKeys and the
\* same descriptions up to the quoted time range (the same sorted pair of
\* codes on the same day).
C6_OrderIndependent ==
    (fn = "detectConflicts" /\ ~ret.threw) =>
        \A other \in Orderings(args.courses) :
            /\ Detected(other).conflictKeys = ret.value.conflictKeys
            /\ {PairAndDay(d) : d \in Detected(other).conflictPairs}
                   = {PairAndDay(d) : d \in ret.value.conflictPairs}

\* a list whose opposite ordering quotes another time range for the same
\* clash
C6_Witness ==
    /\ fn = "detectConflicts"
    /\ Len(args.courses) = 2
    /\ args.courses[1].course_code # args.courses[2].course_code
    /\ ret.value.conflictKeys # {}
    /\ Detected(<<args.courses[2], args.courses[1]>>).conflictPairs
           # ret.value.conflictPairs

\* C7: checkClash returns, each once, exactly the codes of the existing
\* courses with a slot that overlaps a slot of the candidate on its day,
\* and the empty list when there is no existing course or the candidate
\* has no slot.
C7_CheckClashExact ==
    (fn = "checkClash" /\ ~ret.threw) =>
        LET cs == args.courses
            sl == SlotLists(cs)
            slotsA == getAllTimeSlots(args.courseA).value
        IN  /\ \A i, j \in 1..Len(ret.value) : ret.value[i] = ret.value[j] => i = j
            /\ Range(ret.value) =
                   {cs[i].course_code : i \in
                       {k \in 1..Len(cs) :
                           \E a \in Range(slotsA), b \in Range(sl[k]) : Overlapping(a, b)}}
            /\ (Len(cs) = 0 \/ Len(slotsA) = 0) => ret.value = <<>>

\* a candidate that overlaps one existing course in several slots, reported
\* once, next to an existing course it does not overlap
C7_Witness ==
    /\ fn = "checkClash"
    /\ Len(args.courses) = 2
    /\ Len(ret.value) = 1
    /\ LET sl == SlotLists(args.courses)
           slotsA == getAllTimeSlots(args.courseA).value
           hits(k) == {ab \in Range(slotsA) \X Range(sl[k]) : Overlapping(ab[1], ab[2])}
       IN  \E k \in 1..2 :
               /\ Cardinality(hits(k)) >= 2
               /\ hits(3 - k) = {}
               /\ Len(sl[3 - k]) > 0
               /\ ret.value = <<args.courses[k].course_code>>

---------------------------------------------------------------------------
(* Properties of the schedule parsers and the filters                      *)

\* a schedule string that stands for "no meetings": empty, white space
\* only, or the literal "nan"
IsBlank(schedule) ==
    schedule = <<>> \/ Trim(schedule) = <<>> \/ schedule = <<"n", "a", "n">>

\* a course none of whose three schedules names a meeting
IsBlankCourse(course) ==
    /\ IsBlank(course.lecture_schedule)
    /\ IsBlank(course.tutorial_schedule)
    /\ IsBlank(course.practical_schedule)

\* C8: a course whose three schedule strings are each empty, white space
\* only or "nan" has no slots, passes every availability filter (filter
\* list, global window, day -> window map), and adds no key and no
\* description to the result of detectConflicts.
C8_BlankCourseUnconstrained ==
    /\ (fn \in {"getAllTimeSlots", "getAllTimeSlots_utils"}
            /\ IsBlankCourse(args.course))
         => ret = Normal(<<>>)
    /\ (fn \in {"isCourseWithinDayTimeFilters", "isCourseWithinTimeRange",
                "isCourseWithinDaywiseTimeRange"}
            /\ IsBlankCourse(args.course))
         => ret = Normal(TRUE)
    /\ fn = "detectConflicts"
         => ret = detectConflicts(SelectSeq(args.courses,
                                            LAMBDA c : ~IsBlankCourse(c)))

\* a blank course put to the day -> window map filter with a window set
C8_Witness ==
    /\ fn = "isCourseWithinDaywiseTimeRange"
    /\ IsBlankCourse(args.course)
    /\ args.course.lecture_schedule = <<"n", "a", "n">>
    /\ DOMAIN args.filter # {}

\* C9: every slot getAllTimeSlots (of App.tsx and of scheduleParser.ts)
\* returns ends after it starts: endMinutes > startMinutes; a segment whose
\* end is not after its start gives no slot.
C9_PositiveDuration ==
    (fn \in {"parseSchedule", "getAllTimeSlots", "getAllTimeSlots_utils"}
        /\ ~ret.threw)
    => \A k \in 1..Len(ret.value) :
           ret.value[k].endMinutes > ret.value[k].startMinutes

\* the stand-alone parser handed "Mon 10:00-09:00" as the lecture schedule
C9_Witness ==
    /\ fn = "getAllTimeSlots_utils"
    /\ args.course.lecture_schedule =
           <<"M", "o", "n", " ", "1", "0", ":", "0", "0", "-", "0", "9", ":", "0", "0">>
    /\ ~ret.threw
    /\ Len(ret.value) > 0

\* the day names of a day token, read from the left: "Th" is Thursday
\* wherever a 'T' is followed by 'h', any other day letter is its own day,
\* any other character is passed over
RECURSIVE DayNames(_)
DayNames(token) ==
    IF token = <<>> THEN <<>>
    ELSE IF Len(token) >= 2 /\ token[1] = "T" /\ token[2] = "h"
         THEN <<(<<"T", "h", "u">>)>> \o DayNames(SubSeq(token, 3, Len(token)))
    ELSE LET rest == DayNames(Tail(token))
         IN  CASE token[1] = "M" -> <<(<<"M", "o", "n">>)>> \o rest
               [] token[1] = "T" -> <<(<<"T", "u", "e">>)>> \o rest
               [] token[1] = "W" -> <<(<<"W", "e", "d">>)>> \o rest
               [] token[1] = "F" -> <<(<<"F", "r", "i">>)>> \o rest
               [] token[1] = "S" -> <<(<<"S", "a", "t">>)>> \o rest
               [] OTHER -> rest

\* the segments of a schedule string
SegmentsOf(schedule) ==
    LET pieces == Split(schedule, <<",">>)
    IN  NonEmpty([i \in 1..Len(pieces) |-> Trim(pieces[i])])

\* a segment "<days> <start>-<end>" whose end is after its start
WellFormed(segment) ==
    LET parts == NonEmpty(SplitWhitespace(segment))
    IN  /\ Len(parts) >= 2
        /\ Len(Split(parts[2], <<"-">>)) >= 2
        /\ timeToMinutes(Trim(Split(parts[2], <<"-">>)[2]))
               > timeToMinutes(Trim(Split(parts[2], <<"-">>)[1]))

\* day, start and end of the slots a list of well-formed segments stands for
RECURSIVE Meetings(_)
Meetings(segments) ==
    IF segments = <<>> THEN <<>>
    ELSE LET parts == NonEmpty(SplitWhitespace(Head(segments)))
             names == DayNames(parts[1])
             range == Split(parts[2], <<"-">>)
         IN  [k \in 1..Len(names) |->
                 [day |-> names[k], start |-> Trim(range[1]), end |-> Trim(range[2])]]
             \o Meetings(Tail(segments))

\* day, start and end of the slots returned
Returned(slots) ==
    [k \in 1..Len(slots) |->
        [day |-> slots[k].day, start |-> slots[k].start, end |-> slots[k].end]]

\* C10: a segment gives one slot per recognized day code of its day token,
\* in the order of the token and all with the segment's start and end;
\* "Th" is read before a single "T": "TuTh 09:00-10:00" gives one Tue slot
\* and one Thu slot, "MWF 08:00-09:00" three slots on Mon, Wed, Fri.
C10_OneSlotPerDayCode ==
    (fn = "parseSchedule" /\ ~ret.threw) =>
        LET segments == SegmentsOf(args.scheduleString)
        IN  /\ (\A k \in 1..Len(segments) : WellFormed(segments[k]))
                   => Returned(ret.value) = Meetings(segments)
            /\ args.scheduleString =
                   <<"T", "u", "T", "h", " ", "0", "9", ":", "0", "0", "-",
                     "1", "0", ":", "0", "0">>
               => [k \in 1..Len(ret.value) |-> ret.value[k].day]
                      = <<(<<"T", "u", "e">>), (<<"T", "h", "u">>)>>
            /\ args.scheduleString =
                   <<"M", "W", "F", " ", "0", "8", ":", "0", "0", "-",
                     "0", "9", ":", "0", "0">>
               => [k \in 1..Len(ret.value) |-> ret.value[k].day]
                      = <<(<<"M", "o", "n">>), (<<"W", "e", "d">>), (<<"F", "r", "i">>)>>

\* "TuTh 09:00-10:00" parsed into a Tue slot and a Thu slot of that range
C10_Witness ==
    /\ fn = "parseSchedule"
    /\ args.scheduleString =
           <<"T", "u", "T", "h", " ", "0", "9", ":", "0", "0", "-",
             "1", "0", ":", "0", "0">>
    /\ Returned(ret.value) =
           <<[day |-> <<"T", "u", "e">>, start |-> <<"0", "9", ":", "0", "0">>,
              end |-> <<"1", "0", ":", "0", "0">>],
             [day |-> <<"T", "h", "u">>, start |-> <<"0", "9", ":", "0", "0">>,
              end |-> <<"1", "0", ":", "0", "0">>]>>

---------------------------------------------------------------------------
(* Properties of clock formatting and of the time range                    *)

\* C11 as stated: timeToMinutes(formatTime(m)) = m for every minute m of the
\* day, for the formatTime of every file (App.tsx, part_001,
\* scheduleParser.ts and the 12-hour one of the timetable grid).
C11_RoundTripEveryVariant ==
    fn \in {"formatTime", "formatTime_part001", "formatTime_utils", "formatTime_grid"}
        => timeToMinutes(ret.value) = args.minutes

\* C11, amended: timeToMinutes(formatTime(m)) = m for every minute m of the
\* day for the 24-hour formatTime of App.tsx, part_001 and
\* scheduleParser.ts; the 12-hour text of the timetable grid is no clock
\* string for timeToMinutes, which returns 0 for it.
C11_RoundTrip24Hour ==
    /\ fn \in {"formatTime", "formatTime_part001", "formatTime_utils"}
           => timeToMinutes(ret.value) = args.minutes
    /\ fn = "formatTime_grid" => timeToMinutes(ret.value) = 0

\* the last minute of the day formatted "23:59" and read back as 1439
C11_Witness ==
    /\ fn = "formatTime"
    /\ args.minutes = 23 * 60 + 59
    /\ ret.value = <<"2", "3", ":", "5", "9">>
    /\ timeToMinutes(ret.value) = args.minutes

\* C12: for every minute m of the day formatTime(m) is the five characters
\* "HH:MM": the hour m div 60 and the minute m mod 60, each as two digits
\* with a leading zero where needed (App.tsx, part_001, scheduleParser.ts).
C12_FiveCharacterClock ==
    fn \in {"formatTime", "formatTime_part001", "formatTime_utils"}
        => LET h == args.minutes \div 60
               m == args.minutes % 60
           IN  ret.value = <<Digits[(h \div 10) + 1], Digits[(h % 10) + 1], ":",
                             Digits[(m \div 10) + 1], Digits[(m % 10) + 1]>>

\* part_001 formats 10:05 as "10:5"
C12_Witness ==
    /\ fn = "formatTime_part001"
    /\ args.minutes = 10 * 60 + 5
    /\ ret.value = <<"1", "0", ":", "5">>

\* all slots of a course list
AllSlots(cs) ==
    LET sl == SlotLists(cs)
    IN  {sl[o[1]][o[2]] : o \in Occurrences(sl)}

C14_AtLeastAnHour ==
    (fn \in {"getTimeRange", "getTimeRange_part001"} /\ ~ret.threw) =>
        /\ ret.value.latest > ret.value.earliest
        /\ ret.value.latest - ret.value.earliest >= 60

\* part_001 with a time filter 09:00-09:30: a range of 30 minutes
C14_Witness ==
    /\ fn = "getTimeRange_part001"
    /\ args.timeFilter # Null
    /\ args.timeFilter.end > args.timeFilter.start
    /\ ret.value.latest - ret.value.earliest = 30

---------------------------------------------------------------------------
(* Properties of the filters and of the parser on malformed input          *)

\* C15: a slot on a day for which the filter has no window is not
\* constrained: a course all of whose slots fall on days without a window
\* passes the filter, also when other days have windows.
C15_NoWindowUnconstrained ==
    /\ (fn = "isCourseWithinDayTimeFilters" /\ ~ret.threw) =>
         LET slots == getAllTimeSlots(args.course).value
         IN  (\A k \in 1..Len(slots) : \A f \in 1..Len(args.filters) :
                  args.filters[f].day # slots[k].day)
             => ret.value = TRUE
    /\ (fn = "isCourseWithinDaywiseTimeRange" /\ ~ret.threw) =>
         LET slots == getAllTimeSlots_utils(args.course).value
         IN  (\A k \in 1..Len(slots) : slots[k].day \notin DOMAIN args.filter)
             => ret.value = TRUE

\* a course that meets on Monday only, a filter list with a window on
\* Tuesday only, and the course is hidden
C15_Witness ==
    /\ fn = "isCourseWithinDayTimeFilters"
    /\ Len(args.filters) = 1
    /\ args.filters[1].day = <<"T", "u", "e">>
    /\ LET slots == getAllTimeSlots(args.course).value
       IN  /\ Len(slots) > 0
           /\ \A k \in 1..Len(slots) : slots[k].day = <<"M", "o", "n">>
    /\ ret.value = FALSE

\* a clock string: digits, ':', digits
IsClock(time) ==
    LET pieces == Split(time, <<":">>)
    IN  /\ Len(pieces) = 2
        /\ \A i \in 1..2 :
               /\ pieces[i] # <<>>
               /\ \A j \in 1..Len(pieces[i]) : IsDigit(pieces[i][j])

\* a segment with a time that is not numeric, or without a day code
Malformed(segment) ==
    LET parts == NonEmpty(SplitWhitespace(segment))
    IN  \/ Len(parts) < 2
        \/ DayNames(parts[1]) = <<>>
        \/ LET range == Split(parts[2], <<"-">>)
           IN  \/ Len(range) < 2
               \/ ~IsClock(Trim(range[1]))
               \/ ~IsClock(Trim(range[2]))

\* C16: a segment whose start or end is not numeric, or whose day token
\* has no recognizable day code, gives no slot, and the other segments of
\* the string give theirs: the slots are those of the string without its
\* malformed segments.
C16_MalformedSegmentDropped ==
    (fn = "parseSchedule" /\ ~ret.threw) =>
        ret = parseSchedule(Join(SelectSeq(SegmentsOf(args.scheduleString),
                                           LAMBDA segment : ~Malformed(segment)),
                                 <<",", " ">>))

\* "M abc-10:00" parsed into a Monday slot from minute 0 to 10:00
C16_Witness ==
    /\ fn = "parseSchedule"
    /\ args.scheduleString = <<"M", " ", "a", "b", "c", "-", "1", "0", ":", "0", "0">>
    /\ ~ret.threw
    /\ Len(ret.value) = 1
    /\ ret.value[1].start = <<"a", "b", "c">>
    /\ ret.value[1].startMinutes = 0

\* C17: no call raises an exception, whatever the schedule strings: the
\* parsers and aggregators return a slot list, and the conflict detector,
\* the clash check, the filters and getTimeRange return their result.
C17_NeverThrows == fn # "none" => ~ret.threw

\* the time range "1000" has no '-': parseSchedule throws
C17_Witness ==
    /\ fn = "parseSchedule"
    /\ args.scheduleString = <<"M", " ", "1", "0", "0", "0">>
    /\ ret.threw

\* a capital letter that is no day code
UnknownDayCode(c) ==
    /\ CodeUnit(c) >= CodeUnit("A")
    /\ CodeUnit(c) <= CodeUnit("Z")
    /\ c \notin {"M", "T", "W", "F", "S"}

\* C18: an unknown day code in the day token of a segment (with a proper
\* time range) is passed through: the parser returns a slot whose day is
\* that code itself.
C18_UnknownDayPassedThrough ==
    (fn = "parseSchedule" /\ ~ret.threw) =>
        \A segment \in Range(SegmentsOf(args.scheduleString)) :
            WellFormed(segment) =>
                LET token == NonEmpty(SplitWhitespace(segment))[1]
                IN  \A i \in 1..Len(token) :
                        UnknownDayCode(token[i]) =>
                            \E k \in 1..Len(ret.value) : ret.value[k].day = <<token[i]>>

\* "X 10:00-11:00" parsed into no slot at all
C18_Witness ==
    /\ fn = "parseSchedule"
    /\ args.scheduleString =
           <<"X", " ", "1", "0", ":", "0", "0", "-", "1", "1", ":", "0", "0">>
    /\ ret = Normal(<<>>)

\* C19: the overlap test is symmetric: for two slots of one day the test
\* gives the same answer with the slots exchanged, for hasConflict and for
\* the inline tests of detectConflicts and checkClash; so checkClash(Y, [X])
\* reports X exactly when checkClash(X, [Y]) reports Y.
C19_OverlapSymmetric ==
    /\ fn = "hasConflict" =>
         /\ ret.value = hasConflict(args.slot2, args.slot1)
         /\ args.slot1.day = args.slot2.day =>
                /\ detectOverlap(args.slot1, args.slot2)
                       = detectOverlap(args.slot2, args.slot1)
                /\ clashOverlap(args.slot1, args.slot2)
                       = clashOverlap(args.slot2, args.slot1)
    /\ (fn = "detectConflicts" /\ ~ret.threw) =>
         \A a \in AllSlots(args.courses), b \in AllSlots(args.courses) :
             a.day = b.day =>
                 /\ detectOverlap(a, b) = detectOverlap(b, a)
                 /\ clashOverlap(a, b) = clashOverlap(b, a)
    /\ (fn = "checkClash" /\ ~ret.threw /\ Len(args.courses) = 1) =>
         LET X == args.courses[1]
             Y == args.courseA
         IN  (X.course_code \in Range(ret.value))
                 <=> (Y.course_code \in Range(checkClash(X, <<Y>>).value))

\* A added while B is selected reports B, and B added while A is selected
\* reports A
C19_Witness ==
    /\ fn = "checkClash"
    /\ Len(args.courses) = 1
    /\ args.courses[1].course_code = <<"B">>
    /\ args.courses[1].lecture_schedule # args.courseA.lecture_schedule
    /\ ret.value = <<(<<"B">>)>>
    /\ checkClash(args.courses[1], <<args.courseA>>).value = <<(<<"A">>)>>

\* C20: one invocation of handleAnalyzeCourseLoad makes at most 3 requests:
\* a further request is made only by an invocation whose attempt k (0 or 1)
\* has failed, and no sooner than 2^k seconds after that failure; an
\* invocation that has ended, with a text or after its third failure, makes
\* no further request; and the step that ends an invocation in failure is
\* the failure of its third request, and stores the error text in
\* analysisResult
C20_RetryWithBackoff ==
    /\ [](\A i \in 1..Len(analyses) :
            /\ analyses[i].requests <= 3
            /\ analyses[i].outcome = "error" => analyses[i].requests = 3)
    /\ [][\A i \in 1..Len(analyses) :
            LET before == analyses[i]
                after == analyses'[i]
            IN  /\ after.requests # before.requests =>
                       /\ after.requests = before.requests + 1
                       /\ before.pc = "waiting"
                       /\ before.attempt \in {0, 1}
                       /\ now - before.failedAt
                              >= (IF before.attempt = 0 THEN 1 ELSE 2)
                /\ before.pc = "done" => after = before
                /\ (before.pc = "fetching" /\ before.attempt = 2
                        /\ after # before) =>
                       /\ after.pc = "done"
                       /\ after.requests = before.requests
                /\ (before.outcome # "error" /\ after.outcome = "error") =>
                       /\ before.attempt = 2
                       /\ before.requests = 3
                       /\ analysisResult' = ErrorText]_vars

\* an invocation whose three requests all failed, the second sent a second
\* after the first failure and the third two seconds after the second, with
\* the error text stored
C20_Witness ==
    /\ \E i \in 1..Len(analyses) :
        /\ analyses[i].requests = 3
        /\ analyses[i].outcome = "error"
        /\ analyses[i].failedAt >= 1
    /\ analysisResult = ErrorText
    /\ now = 3

---------------------------------------------------------------------------
(* Properties of the second group: agreement of the two clash checks,      *)
(* the window filter, the selection and the analysis                       *)

\* the codes of the courses of a list
Codes(cs) == {cs[i].course_code : i \in 1..Len(cs)}

\* no two slots of the course overlap
SelfDisjoint(course) ==
    LET slots == getAllTimeSlots(course).value
    IN  \A i, j \in 1..Len(slots) : i # j => ~Overlapping(slots[i], slots[j])

\* the description reads "<x> clashes with <y> on ..." with {x, y} = {a, b}
Names(description, a, b) ==
    LET words == SplitWhitespace(description)
    IN  {words[1], words[4]} = {a, b}

\* C21: for an existing list S and a candidate c whose code is not in S and
\* whose own slots do not overlap each other, checkClash(c, S) is non-empty
\* exactly when detectConflicts(S followed by c).conflictKeys holds the key
\* of a slot of c, and a code X is in checkClash(c, S) exactly when
\* detectConflicts(S followed by c) has a description naming c and X
C21_ClashAgreesWithDetect ==
    (/\ fn = "checkClash"
     /\ ~ret.threw
     /\ args.courseA.course_code \notin Codes(args.courses)
     /\ SelfDisjoint(args.courseA)) =>
        LET c == args.courseA
            detected == Detected(Append(args.courses, c))
            keysOfC == {KeyText(c.course_code, slot) :
                            slot \in Range(getAllTimeSlots(c).value)}
        IN  /\ (ret.value # <<>>) <=> (detected.conflictKeys \cap keysOfC # {})
            /\ \A X \in Codes(args.courses) \cup Range(ret.value) :
                   (X \in Range(ret.value))
                       <=> (\E description \in detected.conflictPairs :
                                Names(description, c.course_code, X))

\* a candidate with two slots, each overlapping a slot of the one existing
\* course, next to an existing course it does not overlap: one code
\* returned, two keys of the candidate emitted
C21_Witness ==
    /\ fn = "checkClash"
    /\ args.courseA = LectureThenTutorial
    /\ Len(args.courses) = 2
    /\ args.courseA.course_code \notin Codes(args.courses)
    /\ ret.value = <<(<<"B">>)>>
    /\ LET detected == Detected(Append(args.courses, args.courseA))
       IN  /\ Cardinality({k \in detected.conflictKeys : k[1] = "A"}) = 2
           /\ \E description \in detected.conflictPairs :
                  Names(description, <<"A">>, <<"B">>)

C23_NoDuplicateCodes ==
    \A i, j \in 1..Len(selectedCourses) :
        selectedCourses[i].course_code = selectedCourses[j].course_code => i = j

\* the same course selected twice, by a second add handled with the
\* values of the render that preceded the first
C23_Witness ==
    /\ Len(selectedCourses) = 2
    /\ selectedCourses[1] = selectedCourses[2]
    /\ rendered.selectedCourses = <<>>
    /\ rendered.selectedCourseCode = selectedCourses[1].course_code

\* the add event appends the course it was asked for
Appends(course) == selectedCourses' = Append(selectedCourses, course)

\* C24: an add event appends a course for which checkClash against the
\* current selection is non-empty only when the user accepted the
\* confirmation; when the user declines, selectedCourses and the chosen
\* course code stay as they were; and a course for which checkClash is
\* empty is appended without a confirmation
C24_ClashNeedsConfirmation ==
    [][HandleAddCourse =>
          /\ \A course \in loadedCourses :
                 Appends(course) =>
                     IF checkClash(course, selectedCourses).value # <<>>
                     THEN lastDialog' = "accepted"
                     ELSE lastDialog' = "none"
          /\ lastDialog' = "declined" =>
                 UNCHANGED <<selectedCourses, selectedCourseCode>>]_vars

\* the same property with checkClash taken against the selection the
\* selector was rendered with
ClashOfRenderNeedsConfirmation ==
    [][HandleAddCourse =>
          /\ \A course \in loadedCourses :
                 Appends(course) =>
                     IF checkClash(course, rendered.selectedCourses).value # <<>>
                     THEN lastDialog' = "accepted"
                     ELSE lastDialog' = "none"
          /\ lastDialog' = "declined" =>
                 UNCHANGED <<selectedCourses, selectedCourseCode>>]_vars

\* a course that overlaps itself, selected a second time without a
\* confirmation
C24_Witness ==
    /\ Len(selectedCourses) = 2
    /\ selectedCourses[1] = selectedCourses[2]
    /\ checkClash(selectedCourses[2], <<selectedCourses[1]>>).value # <<>>
    /\ lastDialog = "none"

\* invocation i has a request in flight or waits for its backoff timer
Pending(i) == analyses[i].pc \in {"fetching", "waiting"}

\* C25: isAnalyzing is true for as long as an attempt of an analysis
\* invocation is in flight or waiting for its backoff delay, so that no
\* second analysis is started while one is pending
C25_AnalyzingWhilePending ==
    /\ \A i \in 1..Len(analyses) : Pending(i) => isAnalyzing
    /\ Cardinality({i \in 1..Len(analyses) : Pending(i)}) <= 1

\* a second analysis started while the second request of the first is in
\* flight
C25_Witness ==
    /\ Len(analyses) = 2
    /\ analyses[1].pc = "fetching"
    /\ analyses[1].attempt = 1
    /\ analyses[2].pc = "fetching"
    /\ analyses[2].attempt = 0
    /\ isAnalyzing

C27_NullUntilInvokedAgain ==
    Len(analyses) = analysesAtReset => analysisResult = Null

\* the text of the only invocation, shown although the selection was reset
\* while its request was in flight and nothing was analysed since
C27_Witness ==
    /\ Len(analyses) = 1
    /\ analysesAtReset = 1
    /\ analyses[1].outcome = "text"
    /\ analysisResult = AnalysisText
    /\ selectedCourses = <<>>

\* C28: handleReset sets selectedCourses and dayTimeFilters to the empty
\* list and analysisResult to null and leaves the loaded catalog as it is;
\* add-filter, remove-filter and clear-filters change no state of the App
\* but dayTimeFilters; add-course and remove-course change no state of the
\* App but selectedCourses
C28_HandlerFrames ==
    [][/\ (HandleReset \/ SelectorHandleReset) =>
              /\ selectedCourses' = <<>>
              /\ dayTimeFilters' = <<>>
              /\ analysisResult' = Null
              /\ loadedCourses' = loadedCourses
       /\ (HandleAddFilter \/ HandleRemoveFilter \/ HandleClearAllFilters) =>
              UNCHANGED <<loadedCourses, selectedCourses, isAnalyzing,
                          analysisResult, analyses>>
       /\ (HandleAddCourse \/ HandleRemoveCourse) =>
              UNCHANGED <<loadedCourses, dayTimeFilters, isAnalyzing,
                          analysisResult, analyses>>]_vars

\* the state after a reset made while a course was selected, a filter was
\* set and the rendered selector still shows both
C28_Witness ==
    /\ loadedCourses # {}
    /\ selectedCourses = <<>>
    /\ dayTimeFilters = <<>>
    /\ analysisResult = Null
    /\ Len(rendered.selectedCourses) = 1
    /\ Len(rendered.dayTimeFilters) = 1
    /\ analysesAtReset = 1
    /\ analyses[1].outcome = "text"

\* C29: the number of conflict descriptions does not depend on the order of
\* the input: every ordering of a course list, courses with several slots on
\* one day included, gives as many descriptions
C29_CountOrderIndependent ==
    (fn = "detectConflicts" /\ ~ret.threw) =>
        \A other \in Orderings(args.courses) :
            Cardinality(Detected(other).conflictPairs)
                = Cardinality(ret.value.conflictPairs)

\* a course with one slot listed before a course with two slots on the same
\* day that both overlap it: one more description than in the opposite order
C29_Witness ==
    /\ fn = "detectConflicts"
    /\ Len(args.courses) = 2
    /\ args.courses[1].course_code # args.courses[2].course_code
    /\ Len(SlotLists(args.courses)[1]) = 1
    /\ Len(SlotLists(args.courses)[2]) = 2
    /\ Cardinality(ret.value.conflictPairs)
           = Cardinality(Detected(<<args.courses[2], args.courses[1]>>).conflictPairs) + 1

\* C30: for every selection, every slot of every course lies inside the range
\* of getTimeRange (earliest <= startMinutes and endMinutes <= latest), and
\* every slot whose day the grid displays is in coursesByDay, once for each
\* time it is visited: the visibility test excludes none of them
C30_SlotsInsideRange ==
    (fn = "TimetableGrid" /\ ~ret.threw) =>
        LET sl == SlotLists(args.courses)
        IN  /\ \A o \in Occurrences(sl) :
                   LET slot == sl[o[1]][o[2]]
                   IN  /\ ret.value.earliest <= slot.startMinutes
                       /\ slot.endMinutes <= ret.value.latest
                       /\ displayed(slot.day) =>
                              \E e \in 1..Len(ret.value.coursesByDay[slot.day]) :
                                  ret.value.coursesByDay[slot.day][e]
                                      = [course |-> args.courses[o[1]], slot |-> slot]
            /\ \A day \in DOMAIN ret.value.coursesByDay :
                   Len(ret.value.coursesByDay[day])
                       = Cardinality({o \in Occurrences(sl) : sl[o[1]][o[2]].day = day})

\* a lecture 09:00-10:30 and a later lecture 11:00-12:00 on Monday: the
\* second one ends where the range ends, and both are in Monday's column
C30_Witness ==
    /\ fn = "TimetableGrid"
    /\ Len(args.courses) = 2
    /\ ret.value.earliest = 540
    /\ ret.value.latest = 720
    /\ Len(ret.value.coursesByDay[<<"M", "o", "n">>]) = 2
    /\ ret.value.coursesByDay[<<"M", "o", "n">>][1].slot.endMinutes = 630
    /\ ret.value.coursesByDay[<<"M", "o", "n">>][2].slot.startMinutes = 660

===========================================================================
